---- MODULE Spec2Model ----
(***************************************************************************)
(* Model of the GRIB2 byte-range ingest service (services/ingest).         *)
(*                                                                         *)
(* Python strings are sequences of one-character strings, so that split,   *)
(* strip, int() and the substring test `a in b` are computed and not       *)
(* assumed.  An optional value (`x | None`) is a sequence of length at     *)
(* most one: None is << >> and the value v is <<v>>.                       *)
(***************************************************************************)
EXTENDS Integers, Sequences, FiniteSets, TLC

VARIABLES
    idx_content,   \* _parse_idx_file / _find_byte_ranges: the index text
    idx_pc,        \* position in the index pipeline
    entries,       \* result of _parse_idx_file(idx_content)
    ranges,        \* result of _find_byte_ranges(idx_content)
    match_probe,   \* last call of _match_idx_entry: entry, var_key, result
    \* read_grib2_for_cities
    args,          \* the call's arguments: model, run_time, aois, city_aoi_map
    pc,            \* position in read_grib2_for_cities
    fh_i,          \* position of the loop over forecast_hours (1-based)
    valid_time,    \* valid_time of the current forecast hour
    remote,        \* name of the remote file (index text, messages) of this hour
    byte_ranges,   \* byte_ranges of the current forecast hour
    var_pos,       \* position of the loop over byte_ranges.items()
    var_data,      \* var_data: var_key -> decoded dataset
    open_ds,       \* datasets opened and not closed: <<fhr, var_key>>
    pending_aois,  \* AOI slugs still to sample in this forecast hour
    city_i,        \* position of the loop over cities.items()
    results,       \* results: list of ForecastPoint
    grid_samples,  \* grid_samples: list of GridSamplePoint
    requests,      \* range requests issued: fhr, var_key, Range header
    hour_log,      \* per forecast hour reached: what the hour did
    \* one call of a pure function of grib2_reader.py
    call,          \* the function called, its arguments and its result
    \* write_forecast_points (bigquery_writer.py)
    w_args,        \* the call's arguments: points, grid_samples
    w_pc,          \* position in write_forecast_points
    table,         \* table_ref of the running _insert_rows_batched
    rows,          \* rows of the running _insert_rows_batched
    batch_i,       \* i of the loop of _insert_rows_batched (0-based)
    inserted,      \* total_inserted of _insert_rows_batched
    total_inserted,\* total_inserted of write_forecast_points
    sampled_rows,  \* sampled_rows
    tile_groups,   \* tile_groups, as a list of key and group in insertion order
    tile_rows,     \* tile_rows
    field_rows,    \* field_rows
    sink,          \* calls of client.insert_rows_json of this invocation:
                   \* table, offset, batch, errors
    w_return,      \* value returned by write_forecast_points
    ingest_id,     \* ingest_id = str(uuid.uuid4())
    created_at,    \* created_at = datetime.now(timezone.utc).isoformat()
    earlier,       \* tile_rows and field_rows of an earlier invocation on w_args
    \* _run_ingestion (main.py)
    CITIES,        \* CITIES = load_cities(), made at import
    m_args,        \* the call's arguments: model, run_time, forecast_hours
    m_pc,          \* position in _run_ingestion
    m_run_time,    \* run_time after line 80
    m_forecast_hours, \* forecast_hours after line 83
    m_points,      \* points: what read_grib2_for_cities returned, None before
    m_result       \* how _run_ingestion ended: an exception or the response

idx_vars == <<idx_content, idx_pc, entries, ranges, match_probe>>

run_vars == <<args, pc, fh_i, valid_time, remote, byte_ranges, var_pos, var_data,
              open_ds, pending_aois, city_i, results, grid_samples, requests,
              hour_log>>

fn_vars == <<call>>

stamp_vars == <<ingest_id, created_at>>

write_vars == <<w_args, w_pc, table, rows, batch_i, inserted, total_inserted,
                sampled_rows, tile_groups, tile_rows, field_rows, sink, w_return,
                stamp_vars, earlier>>

main_vars == <<CITIES, m_args, m_pc, m_run_time, m_forecast_hours, m_points, m_result>>

ext_vars == <<fn_vars, write_vars, main_vars>>

vars == <<idx_vars, run_vars, ext_vars>>

(***************************************************************************)
(* Bounds of the model.                                                    *)
(***************************************************************************)
MaxLines == 3        \* lines of an index text in SpecIdx
MaxHours == 2        \* forecast hours of one run in Spec

(***************************************************************************)
(* Optional values.                                                        *)
(***************************************************************************)
None == << >>
Some(v) == <<v>>
IsNone(o) == o = << >>
Val(o) == o[1]

(***************************************************************************)
(* Python string primitives.                                               *)
(***************************************************************************)
Digits == {"0", "1", "2", "3", "4", "5", "6", "7", "8", "9"}
Whitespace == {" ", "\n", "\t"}

DigitVal(c) ==
    CASE c = "0" -> 0 [] c = "1" -> 1 [] c = "2" -> 2 [] c = "3" -> 3
      [] c = "4" -> 4 [] c = "5" -> 5 [] c = "6" -> 6 [] c = "7" -> 7
      [] c = "8" -> 8 [] c = "9" -> 9

\* str.lower() on the letters that occur in the model's texts.
LowerChar(c) ==
    CASE c = "S" -> "s" [] c = "I" -> "i" [] c = "C" -> "c" [] c = "T" -> "t"
      [] c = "M" -> "m" [] c = "P" -> "p" [] c = "A" -> "a" [] c = "G" -> "g"
      [] c = "R" -> "r" [] c = "D" -> "d" [] c = "U" -> "u" [] c = "V" -> "v"
      [] c = "H" -> "h" [] c = "N" -> "n" [] c = "O" -> "o" [] c = "E" -> "e"
      [] c = "F" -> "f" [] c = "B" -> "b" [] c = "L" -> "l"
      [] OTHER -> c

Lower(s) == [i \in 1..Len(s) |-> LowerChar(s[i])]

\* str.strip(): drop leading and trailing whitespace.
Strip(s) ==
    LET keep == {i \in 1..Len(s) : s[i] \notin Whitespace}
    IN  IF keep = {} THEN << >>
        ELSE LET lo == CHOOSE i \in keep : \A j \in keep : i <= j
                 hi == CHOOSE i \in keep : \A j \in keep : j <= i
             IN  SubSeq(s, lo, hi)

\* `sub in s` for strings.
Contains(sub, s) ==
    \E k \in 0..(Len(s) - Len(sub)) : SubSeq(s, k + 1, k + Len(sub)) = sub

\* s.split(sep) for a one-character separator.
RECURSIVE Split(_, _)
Split(s, sep) ==
    IF \A i \in 1..Len(s) : s[i] # sep
    THEN <<s>>
    ELSE LET k == CHOOSE i \in 1..Len(s) :
                      s[i] = sep /\ \A j \in 1..(i - 1) : s[j] # sep
         IN  <<SubSeq(s, 1, k - 1)>> \o Split(SubSeq(s, k + 1, Len(s)), sep)

\* sep.join(parts)
RECURSIVE Join(_, _)
Join(parts, sep) ==
    IF parts = << >> THEN << >>
    ELSE IF Len(parts) = 1 THEN parts[1]
    ELSE parts[1] \o <<sep>> \o Join(Tail(parts), sep)

\* str(n) of an int: decimal digits, "-" in front of a negative number.
DigitChar(d) ==
    CASE d = 0 -> "0" [] d = 1 -> "1" [] d = 2 -> "2" [] d = 3 -> "3" [] d = 4 -> "4"
      [] d = 5 -> "5" [] d = 6 -> "6" [] d = 7 -> "7" [] d = 8 -> "8" [] d = 9 -> "9"

RECURSIVE NatToStr(_)
NatToStr(n) ==
    IF n < 10 THEN <<DigitChar(n)>>
    ELSE NatToStr(n \div 10) \o <<DigitChar(n % 10)>>

IntToStr(n) == IF n < 0 THEN <<"-">> \o NatToStr(0 - n) ELSE NatToStr(n)

RECURSIVE DigitsValue(_)
DigitsValue(s) ==
    IF s = << >> THEN 0
    ELSE 10 * DigitsValue(SubSeq(s, 1, Len(s) - 1)) + DigitVal(s[Len(s)])

IsDigits(s) == Len(s) > 0 /\ \A i \in 1..Len(s) : s[i] \in Digits

\* int(s): surrounding whitespace and one sign are accepted; anything else
\* raises ValueError.
IntParses(s) ==
    LET t == Strip(s)
    IN  /\ Len(t) > 0
        /\ IF t[1] \in {"-", "+"} THEN IsDigits(Tail(t)) ELSE IsDigits(t)

IntValue(s) ==
    LET t == Strip(s)
    IN  IF t[1] = "-" THEN 0 - DigitsValue(Tail(t))
        ELSE IF t[1] = "+" THEN DigitsValue(Tail(t))
        ELSE DigitsValue(t)

\* float(s) on the decimal forms  d+  |  d+.d*  |  .d+  with optional sign,
\* and on the special values inf / nan.
FloatKind(s) ==
    LET t  == Strip(s)
        u  == IF Len(t) > 0 /\ t[1] \in {"-", "+"} THEN Tail(t) ELSE t
        lu == Lower(u)
        ps == Split(u, ".")
    IN  IF lu \in {<<"i","n","f">>, <<"i","n","f","i","n","i","t","y">>} THEN "inf"
        ELSE IF lu = <<"n","a","n">> THEN "nan"
        ELSE IF Len(ps) = 1 /\ IsDigits(ps[1]) THEN "finite"
        ELSE IF /\ Len(ps) = 2
                /\ (ps[1] = << >> \/ IsDigits(ps[1]))
                /\ (ps[2] = << >> \/ IsDigits(ps[2]))
                /\ (ps[1] # << >> \/ ps[2] # << >>) THEN "finite"
        ELSE "invalid"

\* int(float(s)) for a finite s: truncation toward zero.
IntOfFloat(s) ==
    LET t  == Strip(s)
        ng == Len(t) > 0 /\ t[1] = "-"
        u  == IF Len(t) > 0 /\ t[1] \in {"-", "+"} THEN Tail(t) ELSE t
        w  == Split(u, ".")[1]
    IN  IF ng THEN 0 - DigitsValue(w) ELSE DigitsValue(w)

(***************************************************************************)
(* Texts of the model.                                                     *)
(***************************************************************************)
S_TMP   == <<"T","M","P">>
S_UGRD  == <<"U","G","R","D">>
S_VGRD  == <<"V","G","R","D">>
S_APCP  == <<"A","P","C","P">>
S_PRATE == <<"P","R","A","T","E">>
S_SNOD  == <<"S","N","O","D">>
S_HGT   == <<"H","G","T">>
S_CAPE  == <<"C","A","P","E">>
S_RH    == <<"R","H">>
S_DPT   == <<"D","P","T">>

S_m_above_ground ==
    <<" ","m"," ","a","b","o","v","e"," ","g","r","o","u","n","d">>
S_mb        == <<" ","m","b">>
S_surface   == <<"s","u","r","f","a","c","e">>
S_Surface   == <<"S","u","r","f","a","c","e">>
S_isotherm  == <<"i","s","o","t","h","e","r","m">>
S_0C        == <<"0","C">>
S_0C_isotherm == <<"0","C"," ","i","s","o","t","h","e","r","m">>
S_date      == <<"d","=","1">>
S_anl       == <<"a","n","l">>

\* One well-formed index line  NUM:BYTE_OFFSET:d=...:VAR:LEVEL:fcst_info
IdxLine(num, off, var, lvl) ==
    Join(<<num, off, S_date, var, lvl, S_anl>>, ":")

(***************************************************************************)
(* config.py: the required variables.  A missing "level" key reads as the  *)
(* empty string (var_config.get("level", "")).                             *)
(***************************************************************************)
GRIB2_VARIABLES ==
    [ temperature_2m |->
        [shortName |-> "2t", typeOfLevel |-> "heightAboveGround", level |-> <<"2">>],
      wind_u_10m |->
        [shortName |-> "10u", typeOfLevel |-> "heightAboveGround", level |-> <<"1","0">>],
      wind_v_10m |->
        [shortName |-> "10v", typeOfLevel |-> "heightAboveGround", level |-> <<"1","0">>],
      precip |->
        [shortName |-> "tp", typeOfLevel |-> "surface", level |-> << >>],
      snow_depth |->
        [shortName |-> "sde", typeOfLevel |-> "surface", level |-> << >>],
      freezing_level |->
        [shortName |-> "0deg", typeOfLevel |-> "isothermZero", level |-> << >>],
      cape |->
        [shortName |-> "cape", typeOfLevel |-> "surface", level |-> << >>],
      relative_humidity |->
        [shortName |-> "2r", typeOfLevel |-> "heightAboveGround", level |-> <<"2">>] ]

\* Iteration order of the GRIB2_VARIABLES dict (insertion order).
VarOrder ==
    <<"temperature_2m", "wind_u_10m", "wind_v_10m", "precip", "snow_depth",
      "freezing_level", "cape", "relative_humidity">>

VarKeys == {VarOrder[i] : i \in 1..Len(VarOrder)}

\* name_map of _match_idx_entry: canonical short name -> accepted idx codes.
name_map ==
    [ s \in {"2t", "10u", "10v", "tp", "sde", "0deg", "cape", "2r"} |->
        CASE s = "2t"   -> {S_TMP}
          [] s = "10u"  -> {S_UGRD}
          [] s = "10v"  -> {S_VGRD}
          [] s = "tp"   -> {S_APCP, S_PRATE}
          [] s = "sde"  -> {S_SNOD}
          [] s = "0deg" -> {S_HGT}
          [] s = "cape" -> {S_CAPE}
          [] s = "2r"   -> {S_RH} ]

(***************************************************************************)
(* grib2_reader.py: _parse_idx_file.  The result is [raised, value]:       *)
(* raised is TRUE when the call ends with an exception (ValueError of      *)
(* int(), OverflowError of int(float("inf"))).                             *)
(***************************************************************************)
Raised == [raised |-> TRUE, value |-> << >>]
Returned(v) == [raised |-> FALSE, value |-> v]

\* Lines 87-90: the sequence id, int(float(parts[0])), ordinal on ValueError.
EntryIndex(field, ordinal) ==
    IF FloatKind(field) = "finite" THEN IntOfFloat(field) ELSE ordinal

\* Lines 66-100: the loop body from line i (1-based) to the end.
RECURSIVE ParseLines(_, _)
ParseLines(lines, i) ==
    IF i > Len(lines) THEN Returned(<< >>)
    ELSE
      LET parts == Split(lines[i], ":")
      IN  IF Len(parts) < 6 THEN ParseLines(lines, i + 1)
          ELSE IF ~IntParses(parts[2]) THEN Raised
          ELSE
            LET next_parts == IF i + 1 <= Len(lines)
                              THEN Split(lines[i + 1], ":") ELSE << >>
            IN  IF Len(next_parts) >= 2 /\ ~IntParses(next_parts[2]) THEN Raised
                ELSE IF FloatKind(parts[1]) = "inf" THEN Raised
                ELSE
                  LET entry ==
                        [ index      |-> EntryIndex(parts[1], i),
                          offset     |-> IntValue(parts[2]),
                          end_offset |-> IF Len(next_parts) >= 2
                                         THEN Some(IntValue(next_parts[2]))
                                         ELSE None,
                          date_str   |-> parts[3],
                          var_name   |-> parts[4],
                          level      |-> parts[5],
                          forecast   |-> parts[6] ]
                      rest == ParseLines(lines, i + 1)
                  IN  IF rest.raised THEN Raised
                      ELSE Returned(<<entry>> \o rest.value)

_parse_idx_file(content) ==
    ParseLines(Split(Strip(content), "\n"), 1)

(***************************************************************************)
(* grib2_reader.py: _match_idx_entry.                                      *)
(***************************************************************************)
\* Mutant: the height test on the substring "N m" alone, the defect the
\* docstring of _match_idx_entry describes.
_match_idx_entry_numeric_substring(entry, var_config) ==
    LET level == Strip(entry.level)
        expected_names == IF var_config.shortName \in DOMAIN name_map
                          THEN name_map[var_config.shortName]
                          ELSE {var_config.shortName}
    IN  IF entry.var_name \notin expected_names THEN FALSE
        ELSE IF var_config.typeOfLevel = "heightAboveGround" /\ var_config.level # << >>
             THEN Contains(var_config.level \o <<" ", "m">>, level)
        ELSE IF var_config.typeOfLevel = "surface"
             THEN Contains(S_surface, Lower(level))
        ELSE IF var_config.typeOfLevel = "isothermZero"
             THEN Contains(S_0C, level) \/ Contains(S_isotherm, Lower(level))
        ELSE TRUE

\* Mutant: the surface test on the text as written, without lower().
_match_idx_entry_case_sensitive(entry, var_config) ==
    LET level == Strip(entry.level)
        expected_names == IF var_config.shortName \in DOMAIN name_map
                          THEN name_map[var_config.shortName]
                          ELSE {var_config.shortName}
    IN  IF entry.var_name \notin expected_names THEN FALSE
        ELSE IF var_config.typeOfLevel = "heightAboveGround" /\ var_config.level # << >>
             THEN Contains(var_config.level \o S_m_above_ground, level)
        ELSE IF var_config.typeOfLevel = "surface"
             THEN Contains(S_surface, level)
        ELSE IF var_config.typeOfLevel = "isothermZero"
             THEN Contains(S_0C, level) \/ Contains(S_isotherm, Lower(level))
        ELSE TRUE

\* Mutant: the level test decides alone, the variable code is not looked at.
_match_idx_entry_any_code(entry, var_config) ==
    LET level == Strip(entry.level)
    IN  IF var_config.typeOfLevel = "heightAboveGround" /\ var_config.level # << >>
        THEN Contains(var_config.level \o S_m_above_ground, level)
        ELSE IF var_config.typeOfLevel = "surface"
             THEN Contains(S_surface, Lower(level))
        ELSE IF var_config.typeOfLevel = "isothermZero"
             THEN Contains(S_0C, level) \/ Contains(S_isotherm, Lower(level))
        ELSE TRUE

_match_idx_entry(entry, var_config) ==
    LET var_name == entry.var_name
        level == Strip(entry.level)
        short_name == var_config.shortName
        type_of_level == var_config.typeOfLevel
        level_str == var_config.level
        expected_names == IF short_name \in DOMAIN name_map
                          THEN name_map[short_name] ELSE {short_name}
    IN  IF var_name \notin expected_names THEN FALSE
        ELSE IF type_of_level = "heightAboveGround" /\ level_str # << >>
             THEN Contains(level_str \o S_m_above_ground, level)
        ELSE IF type_of_level = "surface"
             THEN Contains(S_surface, Lower(level))
        ELSE IF type_of_level = "isothermZero"
             THEN Contains(S_0C, level) \/ Contains(S_isotherm, Lower(level))
        ELSE TRUE

(***************************************************************************)
(* grib2_reader.py: _find_byte_ranges.  The dict is a function on the set  *)
(* of resolved keys; a range is <<offset, end_offset>>.                    *)
(***************************************************************************)
\* Lines 157-160: position of the first entry the matcher accepts, 0 if none.
FirstMatch(es, var_config) ==
    LET hits == {i \in 1..Len(es) : _match_idx_entry(es[i], var_config)}
    IN  IF hits = {} THEN 0
        ELSE CHOOSE i \in hits : \A j \in hits : i <= j

\* Mutant: the scan without its `break`, so that the last match wins.
_find_byte_ranges_no_break(content) ==
    LET parsed == _parse_idx_file(content)
        es == parsed.value
        hits(k) == {i \in 1..Len(es) : _match_idx_entry(es[i], GRIB2_VARIABLES[k])}
        found == {k \in VarKeys : hits(k) # {}}
    IN  IF parsed.raised THEN Raised
        ELSE Returned(
               [k \in found |->
                  LET e == es[CHOOSE i \in hits(k) : \A j \in hits(k) : j <= i]
                  IN  <<e.offset, e.end_offset>>])

_find_byte_ranges(content) ==
    LET parsed == _parse_idx_file(content)
        es == parsed.value
        found == {k \in VarKeys : FirstMatch(es, GRIB2_VARIABLES[k]) # 0}
    IN  IF parsed.raised THEN Raised
        ELSE Returned(
               [k \in found |->
                  LET e == es[FirstMatch(es, GRIB2_VARIABLES[k])]
                  IN  <<e.offset, e.end_offset>>])

(***************************************************************************)
(* Numbers.  Temperatures, wind components and the other field values are  *)
(* integers in hundredths of their unit (280.00 K is 28000), wind          *)
(* directions are in tenths of a degree, coordinates are in hundredths of  *)
(* a degree; round(x, 2) and round(x, 1) then round to an integer.         *)
(***************************************************************************)
Abs(x) == IF x < 0 THEN 0 - x ELSE x

\* floor(a / b) for b > 0.
FloorDiv(a, b) == IF a >= 0 THEN a \div b ELSE 0 - ((0 - a + b - 1) \div b)

\* round(a / b) for b > 0: to nearest, an exact tie to the even neighbour.
RoundDiv(a, b) ==
    LET q == FloorDiv(a, b)
        r == a - q * b
    IN  IF 2 * r < b THEN q
        ELSE IF 2 * r > b THEN q + 1
        ELSE IF q % 2 = 0 THEN q ELSE q + 1

\* round(math.sqrt(n)) for an integer n >= 0.
RoundSqrt(n) ==
    CHOOSE r \in 0..n :
        /\ (r = 0 \/ (2 * r - 1) * (2 * r - 1) <= 4 * n)
        /\ 4 * n < (2 * r + 1) * (2 * r + 1)

\* math.degrees(math.atan2(v, u)) on the axes and the diagonals, where it is
\* a whole number of degrees (the wind components of the model's grids).
Atan2Deg(v, u) ==
    CASE v = 0 /\ u >= 0 -> 0
      [] v = 0 /\ u < 0  -> 180
      [] u = 0 /\ v > 0  -> 90
      [] u = 0 /\ v < 0  -> 0 - 90
      [] u > 0 /\ v = u  -> 45
      [] u < 0 /\ v = 0 - u -> 135
      [] u < 0 /\ v = u  -> 0 - 135
      [] u > 0 /\ v = 0 - u -> 0 - 45

(***************************************************************************)
(* grib2_reader.py: _compute_wind, _lapse_rate_adjust.                     *)
(***************************************************************************)
\* Mutant: the direction the wind blows to, counted from the east.
_compute_wind_to_direction(u, v) ==
    IF u = None \/ v = None THEN <<None, None>>
    ELSE LET speed == RoundSqrt(Val(u) * Val(u) + Val(v) * Val(v))
             direction == ((90 - Atan2Deg(Val(v), Val(u))) % 360) * 10
         IN  <<Some(speed), Some(direction)>>

\* The pair (speed, direction); each is an optional value.
_compute_wind(u, v) ==
    IF u = None \/ v = None THEN <<None, None>>
    ELSE LET speed == RoundSqrt(Val(u) * Val(u) + Val(v) * Val(v))
             direction == ((270 - Atan2Deg(Val(v), Val(u))) % 360) * 10
         IN  <<Some(speed), Some(direction)>>

base_elev == 1500
lapse_rate_e4 == 65     \* lapse_rate = 0.0065 K per metre, times 10^4

\* Mutant: the elevation is not taken relative to base_elev.
_lapse_rate_adjust_from_sea_level(temp_k, elevation_m) ==
    RoundDiv(100 * temp_k - lapse_rate_e4 * elevation_m, 100)

\* round(temp_k - lapse_rate * (elevation_m - base_elev), 2), in hundredths.
_lapse_rate_adjust(temp_k, elevation_m) ==
    LET delta_elev == elevation_m - base_elev
    IN  RoundDiv(100 * temp_k - lapse_rate_e4 * delta_elev, 100)

(***************************************************************************)
(* A decoded dataset (xarray.Dataset opened by cfgrib):                    *)
(*   dims      "latitude" | "lat"  the indexed dimension names             *)
(*             "aux"   latitude/longitude are 2-D auxiliary coordinates    *)
(*             "none"  no coordinate name contains lat or lon              *)
(*   lats, lons  coordinate vectors                                       *)
(*   data_vars   names of the data variables, in order                    *)
(*   cells       cells[n][<<i, j>>]: value of variable n at lats[i],       *)
(*               lons[j]; None is NaN                                      *)
(***************************************************************************)
NaN == None

\* A cell whose value float() cannot convert (TypeError): not a scalar.
Unreadable == <<"float", "TypeError">>

\* Index.get_indexer(method="nearest"): least distance, ties to the larger
\* coordinate.
NearestIndex(coords, x) ==
    CHOOSE i \in 1..Len(coords) :
        \A j \in 1..Len(coords) :
            \/ Abs(coords[i] - x) < Abs(coords[j] - x)
            \/ Abs(coords[i] - x) = Abs(coords[j] - x) /\ coords[i] >= coords[j]

\* Mutant: the two coordinates passed to the wrong dimensions.
SelNearest_swapped(ds, lat, lon_val) ==
    <<NearestIndex(ds.lats, lon_val), NearestIndex(ds.lons, lat)>>

\* ds.sel({lat_dim: lat, lon_dim: lon_val}, method="nearest"): the cell.
SelNearest(ds, lat, lon_val) ==
    <<NearestIndex(ds.lats, lat), NearestIndex(ds.lons, lon_val)>>

\* Lines 191-192: the data variables whose name matches the hint.
NameMatches(var_name, v) ==
    Contains(Lower(var_name), Lower(v)) \/ Contains(Lower(v), Lower(var_name))

\* Lines 188-199: one pass of the loop body.  The outcome is
\*   [kind |-> "return", value |-> v]   the function returns v
\*   [kind |-> "continue"]              KeyError / ValueError, next convention
\*   [kind |-> "raise"]                 any other exception
Attempt(ds, lat, lon_val, var_name) ==
    LET \* float(point[v].values) of data variable n at the selected cell
        Read(n, cell) ==
            IF ds.cells[n][cell] = Unreadable
            THEN [kind |-> "raise", value |-> None]
            ELSE [kind |-> "return", value |-> ds.cells[n][cell]]
        \* stops: the matching variables at which the loop of line 191 ends,
        \* because float() raises or the value is not NaN
        Pick(stops, cell) ==
            IF stops # {}
            THEN Read(CHOOSE n \in stops : \A m \in stops : n <= m, cell)
            ELSE IF ds.data_vars = << >> THEN [kind |-> "raise", value |-> None]
            ELSE Read(1, cell)
        At(cell) ==
            Pick({n \in 1..Len(ds.data_vars) :
                     /\ NameMatches(var_name, ds.data_vars[n])
                     /\ ds.cells[n][cell] # NaN}, cell)
    IN  IF ds.dims = "none" THEN [kind |-> "raise", value |-> None]
        ELSE IF ds.dims = "aux" THEN [kind |-> "continue", value |-> None]
        ELSE At(SelNearest(ds, lat, lon_val))

\* Mutant: without the outer `except Exception` of lines 204-206.
_extract_nearest_value_unguarded(ds, lat, lon, var_name) ==
    LET Outcome(first, second) ==
            IF first.kind = "return" THEN first.value
            ELSE IF first.kind = "raise" THEN <<"raised", "Exception">>
            ELSE IF second.kind = "return" THEN second.value
            ELSE IF second.kind = "raise" THEN <<"raised", "Exception">>
            ELSE None
    IN  Outcome(Attempt(ds, lat, lon, var_name), Attempt(ds, lat, lon % 36000, var_name))

_extract_nearest_value(ds, lat, lon, var_name) ==
    LET lon_360 == lon % 36000
        \* first, second: the passes of the loop over [lon, lon_360]
        Outcome(first, second) ==
            IF first.kind = "return" THEN first.value
            ELSE IF first.kind = "raise" THEN None
            ELSE IF second.kind = "return" THEN second.value
            ELSE None
    IN  Outcome(Attempt(ds, lat, lon, var_name), Attempt(ds, lat, lon_360, var_name))

(***************************************************************************)
(* grib2_reader.py: _point_in_polygon, _aoi_target_points.  A polygon is a *)
(* sequence of <<lat, lon>> vertices.                                      *)
(***************************************************************************)
resolution_deg == 25      \* 0.25 degrees

\* lon < (xj - xi) * (lat - yi) / ((yj - yi) + 1e-12) + xi, evaluated when
\* yi # yj.  The 1e-12 moves the quotient t / d towards 0, so a point lying
\* exactly on the edge is counted as left of it when t < 0 only.
RayCrosses(lat, lon, vi, vj) ==
    LET yi == vi[1]  xi == vi[2]
        yj == vj[1]  xj == vj[2]
        d == yj - yi
        t == (xj - xi) * (lat - yi)
        l == (lon - xi) * d
    IN  /\ (yi > lat) # (yj > lat)
        /\ \/ IF d > 0 THEN l < t ELSE l > t
           \/ l = t /\ t < 0

_point_in_polygon(lat, lon, polygon) ==
    LET n == Len(polygon)
        crossings == {i \in 1..n :
                        RayCrosses(lat, lon, polygon[i],
                                   polygon[IF i = 1 THEN n ELSE i - 1])}
    IN  IF n < 3 THEN FALSE ELSE Cardinality(crossings) % 2 = 1

\* The coordinates min, min + r, min + 2r, ... that are <= max, in order.
RECURSIVE LatticeAxis(_, _)
LatticeAxis(lo, hi) ==
    IF lo > hi THEN << >>
    ELSE <<lo>> \o LatticeAxis(lo + resolution_deg, hi)

RECURSIVE Flatten(_)
Flatten(ss) == IF ss = << >> THEN << >> ELSE ss[1] \o Flatten(Tail(ss))

\* Mutant: the polygon is ignored.
_aoi_target_points_bbox_only(aoi) ==
    LET lat_axis == LatticeAxis(aoi.min_lat, aoi.max_lat)
        lon_axis == LatticeAxis(aoi.min_lon, aoi.max_lon)
        row(i) == [j \in 1..Len(lon_axis) |-> <<lat_axis[i], lon_axis[j]>>]
    IN  Flatten([i \in 1..Len(lat_axis) |-> row(i)])

_aoi_target_points(aoi) ==
    LET lat_axis == LatticeAxis(aoi.min_lat, aoi.max_lat)
        lon_axis == LatticeAxis(aoi.min_lon, aoi.max_lon)
        row(i) == [j \in 1..Len(lon_axis) |-> <<lat_axis[i], lon_axis[j]>>]
        all == Flatten([i \in 1..Len(lat_axis) |-> row(i)])
        keep(pt) == aoi.polygon = << >> \/ _point_in_polygon(pt[1], pt[2], aoi.polygon)
    IN  SelectSeq(all, keep)

(***************************************************************************)
(* Inputs of read_grib2_for_cities in the model.                           *)
(***************************************************************************)
hour_step == 3      \* get_default_forecast_hours("gfs"): range(0, 121, 3)

forecast_hours == [i \in 1..MaxHours |-> (i - 1) * hour_step]

\* cities: slug -> CityConfig (lat, lon in hundredths of a degree).
\* elev_bands is the JSON value of the key: a list, or None for null.
cities ==
    [ durango   |-> [lat |-> 3760, lon |-> 0 - 10800, elev_bands |-> Some(<<2000, 3500>>)],
      silverton |-> [lat |-> 3719, lon |-> 0 - 10766, elev_bands |-> Some(<<3000>>)] ]

\* CITIES_CONFIG with "elev_bands": null for silverton; load_cities stores
\* the value as it is.
cities_null_bands == [cities EXCEPT !.silverton.elev_bands = None]

\* Iteration order of cities.items().
CityOrder == <<"durango", "silverton">>

\* aois: slug -> AoiConfig; the empty function stands for None and for {}.
AoiTable ==
    [ la_plata_county |->
        [ name |-> "La Plata County, CO",
          min_lat |-> 3725, min_lon |-> 0 - 10800,
          max_lat |-> 3750, max_lon |-> 0 - 10775,
          polygon |-> << >> ] ]

NoAois == << >>
NoCityAoiMap == << >>

RunArgs ==
    { [model |-> "gfs", run_time |-> 12, cities |-> a[3], aois |-> a[1],
       city_aoi_map |-> a[2]] :
        a \in { <<NoAois, NoCityAoiMap, cities>>,
                <<AoiTable, NoCityAoiMap, cities>>,
                <<AoiTable, [durango |-> "la_plata_county",
                             silverton |-> "san_juan_county"], cities>>,
                <<NoAois, NoCityAoiMap, cities_null_bands>> } }

\* model.upper()
UpperName(m) ==
    CASE m = "hrrr" -> "HRRR" [] m = "gfs" -> "GFS"
      [] m = "nam" -> "NAM" [] m = "ecmwf" -> "ECMWF"

(***************************************************************************)
(* The remote side: for a forecast hour, the .idx text and, per variable,  *)
(* the dataset the decoder returns for the message at the variable's       *)
(* range.  All datasets share one 2 x 2 geometry.                          *)
(***************************************************************************)
GridLats == <<3700, 3760>>
GridLons == <<0 - 10800, 0 - 10740>>

MkDataset(dims, name, c11, c12, c21, c22) ==
    [ dims |-> dims, lats |-> GridLats, lons |-> GridLons,
      data_vars |-> <<name>>,
      cells |-> << [c \in {<<1, 1>>, <<1, 2>>, <<2, 1>>, <<2, 2>>} |->
                      CASE c = <<1, 1>> -> c11 [] c = <<1, 2>> -> c12
                        [] c = <<2, 1>> -> c21 [] c = <<2, 2>> -> c22] >> ]

File_temp ==
    [ idx |-> Join(<< IdxLine(<<"1">>, <<"0">>, S_TMP, <<"2">> \o S_mb),
                      IdxLine(<<"2">>, <<"5","0">>, S_TMP, <<"2">> \o S_m_above_ground) >>,
                   "\n") \o <<"\n">>,
      messages |->
        [ temperature_2m |->
            MkDataset("latitude", <<"t","2","m">>,
                      Some(27315), Some(0), Some(28000), NaN) ] ]

File_wind ==
    [ idx |-> Join(<< IdxLine(<<"1">>, <<"0">>, S_UGRD, <<"1","0">> \o S_m_above_ground),
                      IdxLine(<<"2">>, <<"4","0">>, S_VGRD, <<"1","0">> \o S_m_above_ground),
                      IdxLine(<<"3">>, <<"8","0">>, S_RH, <<"2">> \o S_m_above_ground) >>,
                   "\n") \o <<"\n">>,
      messages |->
        [ wind_u_10m |->
            MkDataset("latitude", <<"u","1","0">>,
                      Some(500), Some(0 - 500), Some(0), Some(500)),
          wind_v_10m |->
            MkDataset("latitude", <<"v","1","0">>,
                      Some(500), Some(0), Some(0 - 500), Some(0 - 500)),
          relative_humidity |->
            MkDataset("lat", <<"r","2">>,
                      Some(5000), NaN, Some(4500), Some(5000)) ] ]

File_surface ==
    [ idx |-> Join(<< IdxLine(<<"1">>, <<"0">>, S_APCP, S_surface),
                      IdxLine(<<"2">>, <<"4","0">>, S_SNOD, S_surface) >>,
                   "\n") \o <<"\n">>,
      messages |->
        [ precip |->
            MkDataset("latitude", <<"t","p">>,
                      NaN, Some(0), Some(120), Some(10)),
          snow_depth |->
            MkDataset("lat", <<"s","d","e">>,
                      Some(20), Some(35), NaN, Some(15)) ] ]

File_upper ==
    [ idx |-> Join(<< IdxLine(<<"1">>, <<"0">>, S_HGT, S_0C_isotherm),
                      IdxLine(<<"2">>, <<"4","0">>, S_CAPE, S_surface) >>,
                   "\n") \o <<"\n">>,
      messages |->
        [ freezing_level |->
            MkDataset("latitude", <<"g","h">>,
                      Some(300000), NaN, Some(310000), NaN),
          cape |->
            MkDataset("latitude", <<"u","n","k","n","o","w","n">>,
                      Some(10000), NaN, Some(25000), NaN) ] ]

\* An index without any required field.
File_nomatch ==
    [ idx |-> IdxLine(<<"1">>, <<"0">>, S_TMP, <<"2">> \o S_mb) \o <<"\n">>,
      messages |-> << >> ]

\* An index whose offset field is not a number.
File_badidx ==
    [ idx |-> IdxLine(<<"1">>, <<"z">>, S_TMP, <<"2">> \o S_m_above_ground) \o <<"\n">>,
      messages |-> << >> ]

\* The files a forecast hour's URL can resolve to, by name.
RemoteFiles ==
    [ temp |-> File_temp, wind |-> File_wind, surface |-> File_surface,
      upper |-> File_upper, nomatch |-> File_nomatch, badidx |-> File_badidx ]

(***************************************************************************)
(* read_grib2_for_cities: helpers.                                         *)
(***************************************************************************)
\* byte_ranges.items(): the resolved keys in insertion order.
Items(br) == SelectSeq(VarOrder, LAMBDA k : k \in DOMAIN br)

S_bytes == <<"b","y","t","e","s","=">>

\* Mutant: the end offset itself as the last byte of the range.
RangeHeader_end_inclusive(range) ==
    S_bytes \o IntToStr(range[1]) \o <<"-">> \o
    (IF range[2] # None THEN IntToStr(Val(range[2])) ELSE << >>)

\* Line 396: f"bytes={start}-{end - 1}" if end is not None else f"bytes={start}-"
RangeHeader(range) ==
    S_bytes \o IntToStr(range[1]) \o <<"-">> \o
    (IF range[2] # None THEN IntToStr(Val(range[2]) - 1) ELSE << >>)

\* Lines 316-342: the URL of the GRIB2 file, by the values it is formatted from.
_build_grib2_url(model, run_time, forecast_hour) ==
    [model |-> model, run_time |-> run_time, forecast_hour |-> forecast_hour]

\* The name hint each variable is sampled with (lines 476-507, 284-289).
Hint ==
    [ temperature_2m |-> <<"t","2","m">>, wind_u_10m |-> <<"u","1","0">>,
      wind_v_10m |-> <<"v","1","0">>, precip |-> <<"t","p">>,
      snow_depth |-> <<"s","d","e">>, freezing_level |-> <<"g","h">>,
      cape |-> <<"c","a","p","e">>, relative_humidity |-> <<"r","2">> ]

\* `_extract_nearest_value(var_data[k], ...) if k in var_data else None`
Sample(vd, k, lat, lon) ==
    IF k \in DOMAIN vd THEN _extract_nearest_value(vd[k], lat, lon, Hint[k]) ELSE None

\* Mutant: var_data created once, before the loop over forecast hours.
NewVarData_kept(previous) == previous

\* Line 387: var_data of a forecast hour starts empty.
NewVarData(previous) == << >>

\* Lines 466-509: the values sampled for one city and the derived wind.
CityMetrics(vd, city) ==
    LET wind == _compute_wind(Sample(vd, "wind_u_10m", city.lat, city.lon),
                              Sample(vd, "wind_v_10m", city.lat, city.lon))
    IN  [ temperature_2m    |-> Sample(vd, "temperature_2m", city.lat, city.lon),
          precip_kg_m2      |-> Sample(vd, "precip", city.lat, city.lon),
          wind_speed_10m    |-> wind[1],
          wind_dir_10m      |-> wind[2],
          snow_depth        |-> Sample(vd, "snow_depth", city.lat, city.lon),
          freezing_level_m  |-> Sample(vd, "freezing_level", city.lat, city.lon),
          cape              |-> Sample(vd, "cape", city.lat, city.lon),
          relative_humidity |-> Sample(vd, "relative_humidity", city.lat, city.lon) ]

\* Mutant: the all-null test without freezing level and CAPE.
AllNull_surface_only(m) ==
    \A v \in { m.temperature_2m, m.precip_kg_m2, m.wind_speed_10m, m.snow_depth,
               m.relative_humidity } : v = None

\* Line 511: the all-null test (wind direction is not in the list).
AllNull(m) ==
    \A v \in { m.temperature_2m, m.precip_kg_m2, m.wind_speed_10m, m.snow_depth,
               m.relative_humidity, m.freezing_level_m, m.cape } : v = None

ForecastPoint(city_slug, band, temp, m) ==
    [ city_slug |-> city_slug,
      model_name |-> UpperName(args.model),
      run_time |-> args.run_time,
      valid_time |-> valid_time,
      elevation_band |-> band,
      temperature_2m |-> temp,
      precip_kg_m2 |-> m.precip_kg_m2,
      wind_speed_10m |-> m.wind_speed_10m,
      wind_dir_10m |-> m.wind_dir_10m,
      snow_depth |-> m.snow_depth,
      freezing_level_m |-> m.freezing_level_m,
      cape |-> m.cape,
      relative_humidity |-> m.relative_humidity ]

\* Line 545: `_lapse_rate_adjust(temp_val, band) if temp_val else None`; the
\* condition is the truth value of a float, false for None and for 0.0.
BandTemperature(temp_val, band) ==
    IF temp_val # None /\ Val(temp_val) # 0
    THEN Some(_lapse_rate_adjust(Val(temp_val), band))
    ELSE None

\* Line 538: `for band in city.elev_bands` raises TypeError for None; it is
\* reached when the city is not skipped at lines 511-518.
BandLoopRaises(city, m) == ~AllNull(m) /\ city.elev_bands = None

\* Lines 511-553: the records appended for one city.
CityRecords(city_slug, city, m) ==
    IF AllNull(m) THEN << >>
    ELSE <<ForecastPoint(city_slug, None, m.temperature_2m, m)>> \o
         IF city.elev_bands = None THEN << >>
         ELSE LET bands == Val(city.elev_bands)
              IN  [b \in 1..Len(bands) |->
                     ForecastPoint(city_slug, Some(bands[b]),
                                   BandTemperature(m.temperature_2m, bands[b]), m)]

\* Lines 275-313: _extract_aoi_grid_samples.
_extract_aoi_grid_samples(vd, aoi_slug, aoi) ==
    LET target_points == _aoi_target_points(aoi)
    IN  IF DOMAIN vd = {} THEN << >>
        ELSE [ n \in 1..Len(target_points) |->
                 LET lat == target_points[n][1]
                     lon == target_points[n][2]
                 IN  [ aoi_slug |-> aoi_slug,
                       model_name |-> UpperName(args.model),
                       run_time |-> args.run_time,
                       valid_time |-> valid_time,
                       lat |-> lat,
                       lon |-> lon,
                       temperature_2m |-> Sample(vd, "temperature_2m", lat, lon),
                       precip_kg_m2 |-> Sample(vd, "precip", lat, lon),
                       wind_u_10m |-> Sample(vd, "wind_u_10m", lat, lon),
                       wind_v_10m |-> Sample(vd, "wind_v_10m", lat, lon),
                       snow_depth |-> Sample(vd, "snow_depth", lat, lon),
                       relative_humidity |-> Sample(vd, "relative_humidity", lat, lon) ] ]

\* Lines 447-450: the AOI slugs sampled in a forecast hour.
SelectedAoiSlugs ==
    IF DOMAIN args.aois = {} THEN {}
    ELSE IF DOMAIN args.city_aoi_map = {} THEN DOMAIN args.aois
    ELSE { args.city_aoi_map[c] : c \in DOMAIN args.city_aoi_map } \cap DOMAIN args.aois

(***************************************************************************)
(* read_grib2_for_cities as a state machine.  hour_log[i] records what     *)
(* forecast hour i did: the file read, the variables resolved, requested,  *)
(* failed and decoded, and the metrics sampled per city.                   *)
(***************************************************************************)
InitRun ==
    /\ args \in RunArgs
    /\ pc = "loop"
    /\ fh_i = 1
    /\ valid_time = 0
    /\ remote = None
    /\ byte_ranges = << >>
    /\ var_pos = 1
    /\ var_data = << >>
    /\ open_ds = {}
    /\ pending_aois = {}
    /\ city_i = 1
    /\ results = << >>
    /\ grid_samples = << >>
    /\ requests = << >>
    /\ hour_log = << >>

\* The index functions are not running during a run, and conversely.
IdxIdle ==
    /\ idx_content = << >>
    /\ idx_pc = "idle"
    /\ entries = Returned(<< >>)
    /\ ranges = Returned(<< >>)
    /\ match_probe = None

FnIdle == call = [fn |-> "none"]

WriteIdle ==
    /\ w_args = [points |-> << >>, grid_samples |-> << >>]
    /\ w_pc = "idle"
    /\ table = ""
    /\ rows = << >>
    /\ batch_i = 0
    /\ inserted = 0
    /\ total_inserted = 0
    /\ sampled_rows = << >>
    /\ tile_groups = << >>
    /\ tile_rows = << >>
    /\ field_rows = << >>
    /\ sink = << >>
    /\ w_return = None
    /\ ingest_id = ""
    /\ created_at = << >>
    /\ earlier = None

\* _run_ingestion is not running.
MainIdle ==
    /\ CITIES = << >>
    /\ m_args = [model |-> "gfs", run_time |-> None, forecast_hours |-> None]
    /\ m_pc = "idle"
    /\ m_run_time = None
    /\ m_forecast_hours = None
    /\ m_points = None
    /\ m_result = None

ExtIdle == FnIdle /\ WriteIdle /\ MainIdle

RunIdle ==
    /\ args = [model |-> "gfs", run_time |-> 12, cities |-> cities, aois |-> NoAois,
               city_aoi_map |-> NoCityAoiMap]
    /\ pc = "idle"
    /\ fh_i = 1
    /\ valid_time = 0
    /\ remote = None
    /\ byte_ranges = << >>
    /\ var_pos = 1
    /\ var_data = << >>
    /\ open_ds = {}
    /\ pending_aois = {}
    /\ city_i = 1
    /\ results = << >>
    /\ grid_samples = << >>
    /\ requests = << >>
    /\ hour_log = << >>

fhr == forecast_hours[fh_i]

\* Line 380: byte_ranges = _find_byte_ranges(idx_content), per remote file.
ResolvedRanges ==
    [name \in DOMAIN RemoteFiles |-> _find_byte_ranges(RemoteFiles[name].idx)]

\* Lines 365-373: the head of the loop over forecast_hours.
BeginHour ==
    /\ pc = "loop"
    /\ fh_i <= Len(forecast_hours)
    /\ valid_time' = args.run_time + fhr
    /\ pc' = "read_idx"
    /\ hour_log' = Append(hour_log,
          [ fhr |-> fhr, status |-> "running", file |-> None, resolved |-> {},
            requested |-> {}, failed |-> {}, decoded |-> {}, metrics |-> << >> ])
    /\ UNCHANGED <<idx_vars, ext_vars, args, fh_i, remote, byte_ranges, var_pos, var_data, open_ds,
                   pending_aois, city_i, results, grid_samples, requests>>

\* Mutant: the exception of a forecast hour leaves the loop.
HourFailed_propagates(log) ==
    /\ pc' = "raised"
    /\ fh_i' = fh_i
    /\ hour_log' = [log EXCEPT ![fh_i].status = "failed"]

\* Lines 559-561: `except Exception` of the forecast hour: log, continue.
HourFailed(log) ==
    /\ pc' = "loop"
    /\ fh_i' = fh_i + 1
    /\ hour_log' = [log EXCEPT ![fh_i].status = "failed"]

\* Lines 377-378: fsspec.open / read of the .idx raises.
ReadIdxFails ==
    /\ pc = "read_idx"
    /\ HourFailed(hour_log)
    /\ UNCHANGED <<idx_vars, ext_vars, args, valid_time, remote, byte_ranges, var_pos, var_data,
                   open_ds, pending_aois, city_i, results, grid_samples, requests>>

\* Lines 377-387: the .idx is read and its ranges are resolved.
ReadIdx ==
    /\ pc = "read_idx"
    /\ \E name \in DOMAIN RemoteFiles :
          LET found == ResolvedRanges[name]
              log == [hour_log EXCEPT ![fh_i].file = Some(name)]
          IN  IF found.raised
              THEN /\ HourFailed(log)
                   /\ UNCHANGED <<remote, byte_ranges, var_pos, var_data>>
              ELSE IF DOMAIN found.value = {}
              THEN /\ pc' = "loop"
                   /\ fh_i' = fh_i + 1
                   /\ hour_log' = [log EXCEPT ![fh_i].status = "no_match"]
                   /\ byte_ranges' = found.value
                   /\ UNCHANGED <<remote, var_pos, var_data>>
              ELSE /\ pc' = "fetch"
                   /\ fh_i' = fh_i
                   /\ hour_log' = [log EXCEPT ![fh_i].resolved = DOMAIN found.value]
                   /\ byte_ranges' = found.value
                   /\ remote' = Some(name)
                   /\ var_pos' = 1
                   /\ var_data' = NewVarData(var_data)
    /\ UNCHANGED <<idx_vars, ext_vars, args, valid_time, open_ds, pending_aois, city_i, results,
                   grid_samples, requests>>

var_key == Items(byte_ranges)[var_pos]

Fetching == pc = "fetch" /\ var_pos <= Len(Items(byte_ranges))

\* Lines 396-401: the range request of the current variable is issued.
IssueRequest ==
    requests' = Append(requests,
        [fhr |-> fhr, var_key |-> var_key,
         url |-> _build_grib2_url(args.model, args.run_time, fhr),
         range |-> RangeHeader(byte_ranges[var_key])])

Requested == [hour_log EXCEPT ![fh_i].requested = @ \cup {var_key}]

\* Mutant: a failed variable ends the forecast hour.
VarFailed_aborts_hour(log) ==
    /\ pc' = "loop"
    /\ fh_i' = fh_i + 1
    /\ var_pos' = var_pos
    /\ hour_log' = [log EXCEPT ![fh_i].failed = @ \cup {var_key},
                               ![fh_i].status = "failed"]

\* Lines 405, 428-436, 442-443: the variable is skipped, the loop goes on.
VarFailed(log) ==
    /\ pc' = "fetch"
    /\ fh_i' = fh_i
    /\ var_pos' = var_pos + 1
    /\ hour_log' = [log EXCEPT ![fh_i].failed = @ \cup {var_key}]

\* Lines 397-402, 442: requests.get times out or raise_for_status raises.
RequestRaises ==
    /\ Fetching
    /\ IssueRequest
    /\ VarFailed(Requested)
    /\ UNCHANGED <<idx_vars, ext_vars, args, valid_time, remote, byte_ranges, var_data, open_ds,
                   pending_aois, city_i, results, grid_samples>>

\* Lines 403-405: a success status other than 200 and 206.
UnexpectedStatus ==
    /\ Fetching
    /\ IssueRequest
    /\ VarFailed(Requested)
    /\ UNCHANGED <<idx_vars, ext_vars, args, valid_time, remote, byte_ranges, var_data, open_ds,
                   pending_aois, city_i, results, grid_samples>>

\* Lines 413-436: xr.open_dataset raises.
DecodeRaises ==
    /\ Fetching
    /\ IssueRequest
    /\ VarFailed(Requested)
    /\ UNCHANGED <<idx_vars, ext_vars, args, valid_time, remote, byte_ranges, var_data, open_ds,
                   pending_aois, city_i, results, grid_samples>>

\* Lines 406-427: the payload decodes; the dataset is kept in var_data.
DecodeOk ==
    /\ Fetching
    /\ IssueRequest
    /\ var_data' = [k \in DOMAIN var_data \cup {var_key} |->
                      IF k = var_key THEN RemoteFiles[Val(remote)].messages[var_key]
                      ELSE var_data[k]]
    /\ open_ds' = open_ds \cup {<<fhr, var_key>>}
    /\ var_pos' = var_pos + 1
    /\ hour_log' = [Requested EXCEPT ![fh_i].decoded = @ \cup {var_key}]
    /\ UNCHANGED <<idx_vars, ext_vars, args, pc, fh_i, valid_time, remote, byte_ranges, pending_aois,
                   city_i, results, grid_samples>>

\* Lines 393, 447-450: the range loop ends; the AOIs to sample are selected.
SelectAois ==
    /\ pc = "fetch"
    /\ var_pos > Len(Items(byte_ranges))
    /\ pc' = "aoi"
    /\ pending_aois' = SelectedAoiSlugs
    /\ UNCHANGED <<idx_vars, ext_vars, args, fh_i, valid_time, remote, byte_ranges, var_pos, var_data,
                   open_ds, city_i, results, grid_samples, requests, hour_log>>

\* Lines 452-463: one AOI is sampled (a set is iterated in any order).
ExtractAoi ==
    /\ pc = "aoi"
    /\ \E slug \in pending_aois :
          /\ grid_samples' = grid_samples \o
                 _extract_aoi_grid_samples(var_data, slug, args.aois[slug])
          /\ pending_aois' = pending_aois \ {slug}
    /\ UNCHANGED <<idx_vars, ext_vars, args, pc, fh_i, valid_time, remote, byte_ranges, var_pos,
                   var_data, open_ds, city_i, results, requests, hour_log>>

\* Line 466: the loop over cities starts.
BeginCities ==
    /\ pc = "aoi"
    /\ pending_aois = {}
    /\ pc' = "cities"
    /\ city_i' = 1
    /\ UNCHANGED <<idx_vars, ext_vars, args, fh_i, valid_time, remote, byte_ranges, var_pos, var_data,
                   open_ds, pending_aois, results, grid_samples, requests, hour_log>>

\* Lines 466-553: one city is sampled and its records are appended.
ExtractCity ==
    /\ pc = "cities"
    /\ city_i <= Len(CityOrder)
    /\ LET Extract(slug, city, m) ==
               /\ ~BandLoopRaises(city, m)
               /\ results' = results \o CityRecords(slug, city, m)
               /\ hour_log' = [hour_log EXCEPT ![fh_i].metrics =
                      [c \in DOMAIN @ \cup {slug} |-> IF c = slug THEN m ELSE @[c]]]
       IN  Extract(CityOrder[city_i], args.cities[CityOrder[city_i]],
                   CityMetrics(var_data, args.cities[CityOrder[city_i]]))
    /\ city_i' = city_i + 1
    /\ UNCHANGED <<idx_vars, ext_vars, args, pc, fh_i, valid_time, remote, byte_ranges, var_pos,
                   var_data, open_ds, pending_aois, grid_samples, requests>>

\* Lines 525-538, 559-561: the base record of the city is appended, the loop
\* over its elevation bands raises, and `except Exception` logs and goes to
\* the next forecast hour; lines 555-557 are not executed.
ExtractCityRaises ==
    /\ pc = "cities"
    /\ city_i <= Len(CityOrder)
    /\ LET Extract(slug, city, m) ==
               /\ BandLoopRaises(city, m)
               /\ results' = results \o CityRecords(slug, city, m)
               /\ hour_log' = [hour_log EXCEPT
                      ![fh_i].metrics =
                          [c \in DOMAIN @ \cup {slug} |-> IF c = slug THEN m ELSE @[c]],
                      ![fh_i].status = "error"]
       IN  Extract(CityOrder[city_i], args.cities[CityOrder[city_i]],
                   CityMetrics(var_data, args.cities[CityOrder[city_i]]))
    /\ pc' = "loop"
    /\ fh_i' = fh_i + 1
    /\ UNCHANGED <<idx_vars, ext_vars, args, valid_time, remote, byte_ranges, var_pos,
                   var_data, open_ds, pending_aois, city_i, grid_samples, requests>>

\* Lines 555-557: the datasets of the hour are closed; next forecast hour.
CloseDatasets ==
    /\ pc = "cities"
    /\ city_i > Len(CityOrder)
    /\ open_ds' = open_ds \ {<<fhr, k>> : k \in DOMAIN var_data}
    /\ pc' = "loop"
    /\ fh_i' = fh_i + 1
    /\ hour_log' = [hour_log EXCEPT ![fh_i].status = "done"]
    /\ UNCHANGED <<idx_vars, ext_vars, args, valid_time, remote, byte_ranges, var_pos, var_data,
                   pending_aois, city_i, results, grid_samples, requests>>

\* Line 563: return results, grid_samples.
Return ==
    /\ pc = "loop"
    /\ fh_i > Len(forecast_hours)
    /\ pc' = "done"
    /\ UNCHANGED <<idx_vars, ext_vars, args, fh_i, valid_time, remote, byte_ranges, var_pos, var_data,
                   open_ds, pending_aois, city_i, results, grid_samples, requests,
                   hour_log>>

Init == IdxIdle /\ InitRun /\ ExtIdle

Next ==
    \/ BeginHour
    \/ ReadIdxFails
    \/ ReadIdx
    \/ RequestRaises
    \/ UnexpectedStatus
    \/ DecodeRaises
    \/ DecodeOk
    \/ SelectAois
    \/ ExtractAoi
    \/ BeginCities
    \/ ExtractCity
    \/ ExtractCityRaises
    \/ CloseDatasets
    \/ Return

Spec == Init /\ [][Next]_vars

(***************************************************************************)
(* Index texts of SpecIdx: every text of 1..MaxLines lines of LinePool,    *)
(* newline-terminated as the published .idx files are.                     *)
(***************************************************************************)
LinePool ==
    { IdxLine(<<"1">>, <<"0">>, S_TMP, <<"2">> \o S_mb),
      IdxLine(<<"2">>, <<"5","0">>, S_TMP, <<"2">> \o S_m_above_ground),
      IdxLine(<<"3">>, <<"7">>, S_TMP, <<"1","2">> \o S_m_above_ground),
      IdxLine(<<"4">>, <<"2","0">>, S_UGRD, <<"1","0">> \o S_m_above_ground),
      IdxLine(<<"8",".","1">>, <<"9">>, S_UGRD, <<"1","0">> \o S_m_above_ground),
      IdxLine(<<"5">>, <<"3","0">>, S_PRATE, S_Surface),
      IdxLine(<<"6">>, <<"4","0">>, S_DPT, <<"2">> \o S_m_above_ground),
      <<"x">>,
      <<"9", ":", "z">>,
      <<"7", ":", "6","0">> }

IdxTexts ==
    { Join(ls, "\n") \o <<"\n">> :
        ls \in UNION {[1..n -> LinePool] : n \in 1..MaxLines} }

(***************************************************************************)
(* SpecIdx: the index functions applied to every text of IdxTexts.         *)
(***************************************************************************)
InitIdx ==
    /\ idx_content \in IdxTexts
    /\ idx_pc = "start"
    /\ entries = Returned(<< >>)
    /\ ranges = Returned(<< >>)
    /\ match_probe = None
    /\ RunIdle
    /\ ExtIdle

ParseIdxFile ==
    /\ idx_pc = "start"
    /\ entries' = _parse_idx_file(idx_content)
    /\ idx_pc' = IF entries'.raised THEN "parse_raised" ELSE "parsed"
    /\ UNCHANGED <<idx_content, ranges, match_probe, run_vars, ext_vars>>

MatchIdxEntry ==
    /\ idx_pc = "parsed"
    /\ \E i \in 1..Len(entries.value), k \in VarKeys :
          match_probe' =
              Some([ entry   |-> entries.value[i],
                     var_key |-> k,
                     result  |-> _match_idx_entry(entries.value[i], GRIB2_VARIABLES[k]) ])
    /\ idx_pc' = "matched"
    /\ UNCHANGED <<idx_content, entries, ranges, run_vars, ext_vars>>

FindByteRanges ==
    /\ idx_pc \in {"parsed", "parse_raised"}
    /\ ranges' = _find_byte_ranges(idx_content)
    /\ idx_pc' = IF ranges'.raised THEN "find_raised" ELSE "resolved"
    /\ UNCHANGED <<idx_content, entries, match_probe, run_vars, ext_vars>>

NextIdx ==
    \/ ParseIdxFile
    \/ MatchIdxEntry
    \/ FindByteRanges

SpecIdx == InitIdx /\ [][NextIdx]_vars

(***************************************************************************)
(* bigquery_writer.py.  Field values are floats: a float is counted in     *)
(* units of its last place and keeps FloatBits significant bits, so that   *)
(* every sum and quotient is rounded to the nearest representable value,   *)
(* ties to the even significand, as IEEE 754 does (binary64 keeps 53       *)
(* bits).  Latitudes and longitudes are in hundredths of a degree.         *)
(***************************************************************************)
FloatBits == 6

\* The spacing of the floats around x >= 0.
RECURSIVE Ulp(_)
Ulp(x) == IF x < 2 ^ FloatBits THEN 1 ELSE 2 * Ulp(x \div 2)

\* a / n in floating point, n >= 1: the float nearest to the quotient (the
\* quotients of the model are at least 2^(FloatBits-1) units, or exact).
\* FlDiv(a, 1) is the float nearest to a.
FlDiv(a, n) ==
    LET u == Ulp(Abs(a) \div n)
    IN  RoundDiv(a, n * u) * u

\* sum(vals): starts at 0 and adds from the left, rounding each sum.
RECURSIVE SumLeft(_)
SumLeft(vals) ==
    IF vals = << >> THEN 0
    ELSE FlDiv(SumLeft(SubSeq(vals, 1, Len(vals) - 1)) + vals[Len(vals)], 1)

Range(seq) == {seq[i] : i \in DOMAIN seq}
SeqMin(seq) == CHOOSE x \in Range(seq) : \A y \in Range(seq) : x <= y
SeqMax(seq) == CHOOSE x \in Range(seq) : \A y \in Range(seq) : x >= y

\* datetime.isoformat(): datetimes are counted in hours, written in digits.
isoformat(t) == IntToStr(t)

\* Lines 35-51.
_forecast_point_to_row(point) ==
    [ city_slug |-> point.city_slug,
      model_name |-> point.model_name,
      run_time |-> isoformat(point.run_time),
      valid_time |-> isoformat(point.valid_time),
      elevation_band |-> point.elevation_band,
      temperature_2m |-> point.temperature_2m,
      precip_kg_m2 |-> point.precip_kg_m2,
      wind_speed_10m |-> point.wind_speed_10m,
      wind_dir_10m |-> point.wind_dir_10m,
      snow_depth |-> point.snow_depth,
      freezing_level_m |-> point.freezing_level_m,
      cape |-> point.cape,
      relative_humidity |-> point.relative_humidity ]

\* Mutant: int() in place of math.floor, which truncates towards zero.
_tile_id_truncating(lat, lon) ==
    LET trunc(x) == IF x >= 0 THEN x \div 100 ELSE 0 - ((0 - x) \div 100)
    IN  <<"t", "i", "l", "e", "_">> \o IntToStr(trunc(lat)) \o <<"_">>
            \o IntToStr(trunc(lon))

\* Lines 54-57: f"tile_{math.floor(lat)}_{math.floor(lon)}".
_tile_id(lat, lon) ==
    <<"t", "i", "l", "e", "_">> \o IntToStr(FloorDiv(lat, 100)) \o <<"_">>
        \o IntToStr(FloorDiv(lon, 100))

\* Lines 60-68, for the directions 0, 90, 180 and 270 degrees (in tenths of
\* a degree), where sin and cos round to 0 and +-1.
_uv_from_speed_dir(speed, direction) ==
    IF speed = None \/ direction = None THEN <<None, None>>
    ELSE LET sp == Val(speed)
             d == Val(direction) % 3600
         IN  CASE d = 0    -> <<Some(0), Some(0 - sp)>>
               [] d = 900  -> <<Some(0 - sp), Some(0)>>
               [] d = 1800 -> <<Some(0), Some(sp)>>
               [] d = 2700 -> <<Some(sp), Some(0)>>

batch_size == 500

\* Mutant: a slice one row longer than batch_size.
Batch_one_more(row_list, i) ==
    SubSeq(row_list, i + 1,
           IF i + batch_size + 1 <= Len(row_list) THEN i + batch_size + 1
           ELSE Len(row_list))

\* Line 74: rows[i : i + batch_size].
Batch(row_list, i) ==
    SubSeq(row_list, i + 1,
           IF i + batch_size <= Len(row_list) THEN i + batch_size ELSE Len(row_list))

\* Mutant: the rows of a rejected batch are counted too.
TotalAfter_counts_rejected(total, batch, errors) == total + Len(batch)

\* Lines 76-79: total_inserted after one batch.
TotalAfter(total, batch, errors) == IF errors THEN total ELSE total + Len(batch)

\* Lines 104-153: the sampled rows, from the grid samples when there are
\* any, else from the base points of the configured cities.  uuid4() and
\* now() are made once per call; every row carries the same two values.
SampledRows(points, grid, id, at) ==
    LET GridSampleRow(gp) ==
            [ model_name |-> gp.model_name,
              run_time |-> isoformat(gp.run_time),
              valid_time |-> isoformat(gp.valid_time),
              tile_id |-> _tile_id(gp.lat, gp.lon),
              city_slug |-> gp.aoi_slug,
              lat |-> gp.lat,
              lon |-> gp.lon,
              temperature_2m |-> gp.temperature_2m,
              precip_kg_m2 |-> gp.precip_kg_m2,
              wind_u_10m |-> gp.wind_u_10m,
              wind_v_10m |-> gp.wind_v_10m,
              snow_depth |-> gp.snow_depth,
              relative_humidity |-> gp.relative_humidity,
              ingest_id |-> id,
              created_at |-> at ]
        CityPointRow(pt) ==
            LET city == cities[pt.city_slug]
                uv == _uv_from_speed_dir(pt.wind_speed_10m, pt.wind_dir_10m)
            IN  [ model_name |-> pt.model_name,
                  run_time |-> isoformat(pt.run_time),
                  valid_time |-> isoformat(pt.valid_time),
                  tile_id |-> _tile_id(city.lat, city.lon),
                  city_slug |-> pt.city_slug,
                  lat |-> city.lat,
                  lon |-> city.lon,
                  temperature_2m |-> pt.temperature_2m,
                  precip_kg_m2 |-> pt.precip_kg_m2,
                  wind_u_10m |-> uv[1],
                  wind_v_10m |-> uv[2],
                  snow_depth |-> pt.snow_depth,
                  relative_humidity |-> pt.relative_humidity,
                  ingest_id |-> id,
                  created_at |-> at ]
        sampled_points ==
            SelectSeq(points, LAMBDA pt : pt.elevation_band = None
                                          /\ pt.city_slug \in DOMAIN cities)
    IN  IF grid # << >>
        THEN [n \in DOMAIN grid |-> GridSampleRow(grid[n])]
        ELSE [n \in DOMAIN sampled_points |-> CityPointRow(sampled_points[n])]

\* Lines 162-165: tile_groups.setdefault(key, []).append(r) for every row;
\* a dict keeps its keys in the order of their first insertion.
RECURSIVE TileGroups(_)
TileGroups(row_list) ==
    IF row_list = << >> THEN << >>
    ELSE LET groups == TileGroups(SubSeq(row_list, 1, Len(row_list) - 1))
             r == row_list[Len(row_list)]
             key == <<r.model_name, r.run_time, r.valid_time, r.tile_id>>
         IN  IF \E g \in DOMAIN groups : groups[g].key = key
             THEN LET g == CHOOSE g \in DOMAIN groups : groups[g].key = key
                  IN  [groups EXCEPT ![g].group = Append(@, r)]
             ELSE Append(groups, [key |-> key, group |-> <<r>>])

\* Lines 178-196: one tile row per group, in the order of the groups.
TileRows(groups, id, at) ==
    LET TileRow(g) ==
            LET lats == [n \in DOMAIN g.group |-> g.group[n].lat]
                lons == [n \in DOMAIN g.group |-> g.group[n].lon]
            IN  [ model_name |-> g.key[1],
                  run_time |-> g.key[2],
                  valid_time |-> g.key[3],
                  tile_id |-> g.key[4],
                  min_lat |-> SeqMin(lats),
                  min_lon |-> SeqMin(lons),
                  max_lat |-> SeqMax(lats),
                  max_lon |-> SeqMax(lons),
                  resolution_deg |-> 25,
                  row_count |-> Cardinality(Range(lats)),
                  col_count |-> Cardinality(Range(lons)),
                  gcs_prefix |-> <<"gs://hyperlocal-wx-grids", g.key[1], g.key[2],
                                   g.key[3], g.key[4]>>,
                  ingest_id |-> id,
                  created_at |-> at ]
    IN  [g \in DOMAIN groups |-> TileRow(groups[g])]

\* Lines 169-176, 178, 198-216: per group, one field row per field.
FieldRows(groups, id, at) ==
    LET fields ==
            << <<"temperature_2m", "K">>,
               <<"precip_kg_m2", "kg/m2">>,
               <<"wind_u_10m", "m/s">>,
               <<"wind_v_10m", "m/s">>,
               <<"snow_depth", "m">>,
               <<"relative_humidity", "%">> >>
        FieldRow(g, field_name, unit) ==
            LET present == SelectSeq(g.group, LAMBDA r : r[field_name] # None)
                vals == [n \in DOMAIN present |-> Val(present[n][field_name])]
            IN  [ model_name |-> g.key[1],
                  run_time |-> g.key[2],
                  valid_time |-> g.key[3],
                  tile_id |-> g.key[4],
                  field_name |-> field_name,
                  unit |-> unit,
                  gcs_uri |-> <<"gs://hyperlocal-wx-grids", g.key[1], g.key[2],
                                g.key[3], g.key[4], field_name, ".parquet">>,
                  compression |-> "snappy",
                  min_value |-> IF vals # << >> THEN Some(SeqMin(vals)) ELSE None,
                  max_value |-> IF vals # << >> THEN Some(SeqMax(vals)) ELSE None,
                  mean_value |-> IF vals # << >>
                                 THEN Some(FlDiv(SumLeft(vals), Len(vals)))
                                 ELSE None,
                  null_count |-> Len(g.group) - Len(vals),
                  ingest_id |-> id,
                  created_at |-> at ]
    IN  Flatten([g \in DOMAIN groups |->
                    [f \in DOMAIN fields |-> FieldRow(groups[g], fields[f][1], fields[f][2])]])

(***************************************************************************)
(* The arguments of write_forecast_points in the model: point lists with   *)
(* a band record, a city that is not configured and more points than two   *)
(* batches hold; grid samples at negative longitudes of two degree cells,  *)
(* with null values and two valid times.                                   *)
(***************************************************************************)
WriteArgs ==
    LET Point(city_slug, valid, band, temp, speed, dir) ==
            [ city_slug |-> city_slug, model_name |-> "GFS", run_time |-> 12,
              valid_time |-> valid, elevation_band |-> band, temperature_2m |-> temp,
              precip_kg_m2 |-> None, wind_speed_10m |-> speed, wind_dir_10m |-> dir,
              snow_depth |-> None, freezing_level_m |-> None, cape |-> None,
              relative_humidity |-> None ]
        GridPoint(valid, lat, lon, temp, rh) ==
            [ aoi_slug |-> "la_plata_county", model_name |-> "GFS", run_time |-> 12,
              valid_time |-> valid, lat |-> lat, lon |-> lon, temperature_2m |-> temp,
              precip_kg_m2 |-> None, wind_u_10m |-> None, wind_v_10m |-> None,
              snow_depth |-> None, relative_humidity |-> rh ]
        PointsFew ==
            << Point("durango", 12, None, Some(132), Some(136), Some(0)),
               Point("durango", 12, Some(2000), Some(128), Some(136), Some(0)),
               Point("silverton", 12, None, None, Some(140), Some(2700)),
               Point("ouray", 12, None, Some(140), None, None) >>
        PointsBandsOnly == << Point("durango", 12, Some(2000), Some(128), None, None) >>
        PointsMany ==
            [n \in 1..(2 * batch_size + 1) |->
                Point("durango", 12 + n, None, Some(132), None, None)]
        GridThree ==
            << GridPoint(12, 3725, 0 - 10800, Some(132), Some(200)),
               GridPoint(12, 3725, 0 - 10775, Some(136), None),
               GridPoint(12, 3750, 0 - 10775, Some(140), Some(200)) >>
        GridFour == GridThree \o << GridPoint(12, 3750, 0 - 10700, None, Some(220)) >>
        GridTwoHours ==
            << GridPoint(12, 3725, 0 - 10800, Some(132), None),
               GridPoint(15, 3725, 0 - 10800, Some(136), None),
               GridPoint(15, 3799, 0 - 10701, Some(136), None) >>
        GridEqual ==
            << GridPoint(12, 3725, 0 - 10800, Some(184), None),
               GridPoint(12, 3725, 0 - 10775, Some(184), None),
               GridPoint(12, 3750, 0 - 10775, Some(184), None) >>
    IN  { [points |-> a[1], grid_samples |-> a[2]] :
            a \in { << << >>, GridThree >>,
                    << PointsBandsOnly, GridEqual >>,
                    << PointsFew, << >> >>,
                    << PointsFew, GridThree >>,
                    << PointsFew, GridFour >>,
                    << PointsFew, GridTwoHours >>,
                    << PointsBandsOnly, << >> >>,
                    << PointsMany, GridThree >> } }

\* Lines 104-105: the values uuid4() and now() can give.  The first
\* invocation's values are named uuid_a and hour 1000; a later invocation
\* draws any uuid and any time that is not earlier.
StampPool ==
    IF earlier = None THEN {<<"uuid_a", 1000>>}
    ELSE {"uuid_a", "uuid_b"} \X {1000, 1001}

(***************************************************************************)
(* write_forecast_points as a state machine; _insert_rows_batched runs one *)
(* batch per step, and the sink answers each batch with errors or without, *)
(* or raises.                                                              *)
(***************************************************************************)
InitWrite ==
    /\ IdxIdle
    /\ RunIdle
    /\ FnIdle
    /\ MainIdle
    /\ w_args \in WriteArgs
    /\ w_pc = "start"
    /\ table = ""
    /\ rows = << >>
    /\ batch_i = 0
    /\ inserted = 0
    /\ total_inserted = 0
    /\ sampled_rows = << >>
    /\ tile_groups = << >>
    /\ tile_rows = << >>
    /\ field_rows = << >>
    /\ sink = << >>
    /\ w_return = None
    /\ ingest_id = ""
    /\ created_at = << >>
    /\ earlier = None

\* A call of _insert_rows_batched(client, table_ref, rows) starts (line 72).
StartInsert(table_ref, row_list) ==
    /\ w_pc' = "insert"
    /\ table' = table_ref
    /\ rows' = row_list
    /\ batch_i' = 0
    /\ inserted' = 0

\* return of write_forecast_points.
ReturnTotal(total) ==
    /\ w_pc' = "done"
    /\ w_return' = Some(total)
    /\ UNCHANGED <<table, rows, batch_i, inserted>>

\* Mutant: without the test of lines 93-94.
WriteBegin_no_empty_test ==
    /\ w_pc = "start"
    /\ StartInsert("forecast_runs",
          [n \in DOMAIN w_args.points |-> _forecast_point_to_row(w_args.points[n])])
    /\ UNCHANGED <<idx_vars, run_vars, fn_vars, main_vars, stamp_vars, earlier, w_args, total_inserted,
                   sampled_rows, tile_groups, tile_rows, field_rows, sink, w_return>>

\* Lines 93-101.
WriteBegin ==
    /\ w_pc = "start"
    /\ IF w_args.points = << >>
       THEN ReturnTotal(0)
       ELSE /\ StartInsert("forecast_runs",
                   [n \in DOMAIN w_args.points |-> _forecast_point_to_row(w_args.points[n])])
            /\ UNCHANGED w_return
    /\ UNCHANGED <<idx_vars, run_vars, fn_vars, main_vars, stamp_vars, earlier, w_args, total_inserted, sampled_rows,
                   tile_groups, tile_rows, field_rows, sink>>

\* Lines 73-80: one batch, answered by the sink with or without errors.
InsertBatch ==
    /\ w_pc = "insert"
    /\ batch_i < Len(rows)
    /\ \E errors \in BOOLEAN :
          /\ sink' = Append(sink, [table |-> table, offset |-> batch_i,
                                   batch |-> Batch(rows, batch_i), errors |-> errors])
          /\ inserted' = TotalAfter(inserted, Batch(rows, batch_i), errors)
    /\ batch_i' = batch_i + batch_size
    /\ UNCHANGED <<idx_vars, run_vars, fn_vars, main_vars, stamp_vars, earlier, w_args, w_pc, table, rows, total_inserted,
                   sampled_rows, tile_groups, tile_rows, field_rows, w_return>>

\* Line 75: client.insert_rows_json raises; nothing catches it.
InsertRaises ==
    /\ w_pc = "insert"
    /\ batch_i < Len(rows)
    /\ w_pc' = "raised"
    /\ UNCHANGED <<idx_vars, run_vars, fn_vars, main_vars, stamp_vars, earlier, w_args, table, rows, batch_i, inserted,
                   total_inserted, sampled_rows, tile_groups, tile_rows, field_rows,
                   sink, w_return>>

\* Line 81 and the statement after the call: lines 101, 159, 220, 221-223.
InsertReturn ==
    /\ w_pc = "insert"
    /\ batch_i >= Len(rows)
    /\ CASE table = "forecast_runs" ->
              /\ total_inserted' = inserted
              /\ w_pc' = "build_sampled"
              /\ UNCHANGED <<table, rows, batch_i, inserted, w_return>>
         [] table = "grid_points_sampled" ->
              /\ w_pc' = "build_tiles"
              /\ UNCHANGED <<table, rows, batch_i, inserted, w_return, total_inserted>>
         [] table = "grid_tiles" ->
              /\ StartInsert("grid_tile_fields", field_rows)
              /\ UNCHANGED <<w_return, total_inserted>>
         [] table = "grid_tile_fields" ->
              /\ ReturnTotal(total_inserted)
              /\ UNCHANGED total_inserted
    /\ UNCHANGED <<idx_vars, run_vars, fn_vars, main_vars, stamp_vars, earlier, w_args, sampled_rows, tile_groups,
                   tile_rows, field_rows, sink>>

\* Lines 103-159.
BuildSampledRows ==
    /\ w_pc = "build_sampled"
    /\ \E stamp \in StampPool :
          /\ ingest_id' = stamp[1]
          /\ created_at' = isoformat(stamp[2])
    /\ sampled_rows' = SampledRows(w_args.points, w_args.grid_samples, ingest_id', created_at')
    /\ IF sampled_rows' = << >>
       THEN ReturnTotal(total_inserted)
       ELSE /\ StartInsert("grid_points_sampled", sampled_rows')
            /\ UNCHANGED w_return
    /\ UNCHANGED <<idx_vars, run_vars, fn_vars, main_vars, earlier, w_args, total_inserted, tile_groups,
                   tile_rows, field_rows, sink>>

\* Lines 161-220.
BuildTiles ==
    /\ w_pc = "build_tiles"
    /\ tile_groups' = TileGroups(sampled_rows)
    /\ tile_rows' = TileRows(tile_groups', ingest_id, created_at)
    /\ field_rows' = FieldRows(tile_groups', ingest_id, created_at)
    /\ StartInsert("grid_tiles", tile_rows')
    /\ UNCHANGED <<idx_vars, run_vars, fn_vars, main_vars, stamp_vars, earlier, w_args, total_inserted, sampled_rows,
                   sink, w_return>>

\* write_forecast_points has returned and is invoked again on the same
\* points and grid samples (inputs of one batch); the rows it built are kept
\* for comparison.
WriteAgain ==
    /\ w_pc = "done"
    /\ earlier = None
    /\ Len(w_args.points) <= batch_size
    /\ earlier' = Some([tile_rows |-> tile_rows, field_rows |-> field_rows])
    /\ w_pc' = "start"
    /\ table' = ""
    /\ rows' = << >>
    /\ batch_i' = 0
    /\ inserted' = 0
    /\ total_inserted' = 0
    /\ sampled_rows' = << >>
    /\ tile_groups' = << >>
    /\ tile_rows' = << >>
    /\ field_rows' = << >>
    /\ sink' = << >>
    /\ w_return' = None
    /\ UNCHANGED <<idx_vars, run_vars, fn_vars, main_vars, stamp_vars, w_args>>

NextWrite ==
    \/ WriteBegin
    \/ InsertBatch
    \/ InsertRaises
    \/ InsertReturn
    \/ BuildSampledRows
    \/ BuildTiles
    \/ WriteAgain

SpecWrite == InitWrite /\ [][NextWrite]_vars

(***************************************************************************)
(* SpecFn: one call of a pure function of grib2_reader.py on an input of   *)
(* its pool.                                                               *)
(***************************************************************************)
\* A longitude axis in the 0-360 convention.
Lons360 == <<0, 25200>>

Grid(dims, lons, names, cells) ==
    [ dims |-> dims, lats |-> GridLats, lons |-> lons, data_vars |-> names,
      cells |-> cells ]

Cells(c11, c12, c21, c22) ==
    [c \in {<<1, 1>>, <<1, 2>>, <<2, 1>>, <<2, 2>>} |->
        CASE c = <<1, 1>> -> c11 [] c = <<1, 2>> -> c12
          [] c = <<2, 1>> -> c21 [] c = <<2, 2>> -> c22]

DatasetPool ==
    { Grid("latitude", GridLons, <<<<"t","2","m">>>>,
           <<Cells(Some(27315), Some(0), Some(28000), NaN)>>),
      Grid("lat", GridLons, <<<<"u","n","k","n","o","w","n">>>>,
           <<Cells(NaN, Some(27000), NaN, Some(27100))>>),
      Grid("latitude", Lons360, <<<<"t","2","m">>>>,
           <<Cells(NaN, Some(27500), NaN, Some(28000))>>),
      Grid("latitude", Lons360, <<<<"t","2","m">>>>,
           <<Cells(Some(26000), Some(27500), Some(26500), Some(28000))>>),
      Grid("latitude", GridLons, <<<<"s","p">>, <<"T","2","M">>>>,
           <<Cells(Some(100), Some(200), Some(300), NaN),
             Cells(Some(27315), NaN, NaN, NaN)>>),
      Grid("latitude", Lons360, <<<<"t","2","m">>>>, <<Cells(NaN, NaN, NaN, NaN)>>),
      Grid("aux", GridLons, <<<<"t","2","m">>>>,
           <<Cells(Some(27315), Some(0), Some(28000), Some(1))>>),
      Grid("none", GridLons, <<<<"t","2","m">>>>,
           <<Cells(Some(27315), Some(0), Some(28000), Some(1))>>),
      Grid("latitude", GridLons, << >>, << >>),
      Grid("latitude", GridLons, <<<<"t","2","m">>>>,
           <<Cells(Unreadable, Some(27000), NaN, Unreadable)>>),
      Grid("lat", GridLons, <<<<"s","p">>, <<"t","2","m">>>>,
           <<Cells(Unreadable, Unreadable, Some(300), Some(400)),
             Cells(NaN, Some(27000), NaN, Some(27100))>>) }

LatPool == {3700, 3719, 3760}
LonPool == {0 - 10800, 0 - 10766, 0 - 10740, 25200}
NamePool == {<<"t","2","m">>, <<"r","2">>}

ExtractNearestValue ==
    /\ call.fn = "none"
    /\ \E ds \in DatasetPool, lat \in LatPool, lon \in LonPool, var_name \in NamePool :
          call' = [ fn |-> "_extract_nearest_value",
                    args |-> [ds |-> ds, lat |-> lat, lon |-> lon, var_name |-> var_name],
                    result |-> _extract_nearest_value(ds, lat, lon, var_name) ]
    /\ UNCHANGED <<idx_vars, run_vars, write_vars, main_vars>>

BoxPool ==
    { [min_lat |-> 3700, max_lat |-> 3750, min_lon |-> 0 - 10835, max_lon |-> 0 - 10745],
      [min_lat |-> 3725, max_lat |-> 3725, min_lon |-> 0 - 10800, max_lon |-> 0 - 10800],
      [min_lat |-> 3700, max_lat |-> 3760, min_lon |-> 0 - 50, max_lon |-> 25],
      [min_lat |-> 3750, max_lat |-> 3700, min_lon |-> 0 - 10800, max_lon |-> 0 - 10775] }

\* Polygons as lists of (lat, lon) vertices.
PolygonPool ==
    { << >>,
      << <<3700, 0 - 10835>>, <<3700, 0 - 10745>>, <<3750, 0 - 10745>>,
         <<3750, 0 - 10835>> >>,
      << <<3690, 0 - 10840>>, <<3690, 0 - 10780>>, <<3770, 0 - 10840>> >>,
      << <<3690, 0 - 100>>, <<3690, 100>>, <<3770, 0>> >>,
      << <<3690, 0 - 10840>>, <<3770, 0 - 10740>> >> }

AoiPool ==
    { [ name |-> "aoi", min_lat |-> b.min_lat, min_lon |-> b.min_lon,
        max_lat |-> b.max_lat, max_lon |-> b.max_lon, polygon |-> poly ] :
        b \in BoxPool, poly \in PolygonPool }

AoiTargetPoints ==
    /\ call.fn = "none"
    /\ \E aoi \in AoiPool :
          call' = [ fn |-> "_aoi_target_points", args |-> [aoi |-> aoi],
                    result |-> _aoi_target_points(aoi) ]
    /\ UNCHANGED <<idx_vars, run_vars, write_vars, main_vars>>

\* Wind components in hundredths of m/s, or None.
WindPool == {None, Some(0 - 500), Some(0), Some(500), Some(300)}

ComputeWind ==
    /\ call.fn = "none"
    /\ \E u \in WindPool, v \in WindPool :
          /\ (u # None /\ v # None) =>
                (Val(u) = 0 \/ Val(v) = 0 \/ Abs(Val(u)) = Abs(Val(v)))
          /\ call' = [ fn |-> "_compute_wind", args |-> [u |-> u, v |-> v],
                       result |-> _compute_wind(u, v) ]
    /\ UNCHANGED <<idx_vars, run_vars, write_vars, main_vars>>

\* Temperatures in hundredths of a kelvin, elevations in metres.
TempPool == {0, 26000, 27315, 28000, 28001}
ElevationPool == {500, 1500, 2000, 3000, 3500, 3501}

LapseRateAdjust ==
    /\ call.fn = "none"
    /\ \E temp_k \in TempPool, elevation_m \in ElevationPool :
          call' = [ fn |-> "_lapse_rate_adjust",
                    args |-> [temp_k |-> temp_k, elevation_m |-> elevation_m],
                    result |-> _lapse_rate_adjust(temp_k, elevation_m) ]
    /\ UNCHANGED <<idx_vars, run_vars, write_vars, main_vars>>

\* _match_idx_entry on entries of every code and level text of the pools,
\* for the specs of GRIB2_VARIABLES and for specs without "typeOfLevel".
MatchIdxEntryCall ==
    LET CodePool == {S_TMP, S_APCP, S_PRATE, S_SNOD, S_CAPE, S_HGT, S_DPT}
        LevelPool ==
            { S_surface, S_Surface, <<"S","U","R","F","A","C","E">>,
              <<" ">> \o S_surface \o <<" ">>, <<"s","u","r","f">>,
              <<"1","8","0","-","0">> \o S_mb \o <<" ","a","b","o","v","e"," ",
                                                   "g","r","o","u","n","d">>,
              <<"2">> \o S_m_above_ground, S_0C_isotherm, << >> }
        ConfigPool ==
            {GRIB2_VARIABLES[k] : k \in VarKeys} \cup
            { [shortName |-> n, typeOfLevel |-> "", level |-> << >>] : n \in {"tp", "cape"} }
    IN  /\ call.fn = "none"
        /\ \E var_name \in CodePool, level \in LevelPool, var_config \in ConfigPool :
              LET entry == [var_name |-> var_name, level |-> level]
              IN  call' = [ fn |-> "_match_idx_entry",
                            args |-> [entry |-> entry, var_config |-> var_config],
                            result |-> _match_idx_entry(entry, var_config) ]
        /\ UNCHANGED <<idx_vars, run_vars, write_vars, main_vars>>

\* Lines 587-612: get_latest_run_time, on the time now() gives.  A time is
\* a day number, an hour and a minute; replace(hour=h) raises ValueError
\* for h outside 0..23.
get_latest_run_time(model, now) ==
    LET replace(t, hour) ==
            IF hour \in 0..23
            THEN Returned([day |-> t.day, hour |-> hour, minute |-> 0])
            ELSE Raised
        LatestCycle(cycles, delay) ==
            LET available_hour == now.hour - delay
                floor == IF available_hour > 0 THEN available_hour ELSE 0
                cycle == CHOOSE c \in cycles :
                            /\ c <= floor
                            /\ \A d \in cycles : d <= floor => d <= c
            IN  replace(IF cycle > available_hour
                        THEN [now EXCEPT !.day = @ - 1] ELSE now, cycle)
    IN  CASE model = "hrrr" ->
               replace(now, IF now.minute < 45 THEN now.hour - 1 ELSE now.hour)
          [] model \in {"gfs", "nam"} -> LatestCycle({0, 6, 12, 18}, 4)
          [] model = "ecmwf" -> LatestCycle({0, 12}, 6)
          [] OTHER -> replace(now, now.hour)

\* Current times: two days, every hour, minutes around the 45 of line 592.
NowPool == [day : {1, 2}, hour : 0..23, minute : {0, 44, 45, 59}]

GetLatestRunTime ==
    /\ call.fn = "none"
    /\ \E model \in {"hrrr", "gfs", "nam", "ecmwf", "icon"}, now \in NowPool :
          call' = [ fn |-> "get_latest_run_time", args |-> [model |-> model, now |-> now],
                    result |-> get_latest_run_time(model, now) ]
    /\ UNCHANGED <<idx_vars, run_vars, write_vars, main_vars>>

InitFn == IdxIdle /\ RunIdle /\ FnIdle /\ WriteIdle /\ MainIdle

NextFn ==
    \/ ExtractNearestValue
    \/ AoiTargetPoints
    \/ ComputeWind
    \/ LapseRateAdjust
    \/ MatchIdxEntryCall
    \/ GetLatestRunTime

SpecFn == InitFn /\ [][NextFn]_vars

(***************************************************************************)
(* main.py: _run_ingestion(model, run_time, forecast_hours) as a state     *)
(* machine.  read_grib2_for_cities is taken by its return value, a pair    *)
(* (results, grid_samples); a call of write_forecast_points first binds    *)
(* its arguments to the parameters (points, cities, grid_samples=None).    *)
(***************************************************************************)
\* grib2_reader.py, lines 573-584.
get_default_forecast_hours(model) ==
    CASE model = "hrrr" -> [i \in 1..19 |-> i - 1]
      [] model = "gfs" -> [i \in 1..41 |-> (i - 1) * hour_step]
      [] model = "nam" -> [i \in 1..21 |-> (i - 1) * hour_step]
      [] model = "ecmwf" -> [i \in 1..21 |-> (i - 1) * 6]
      [] OTHER -> [i \in 1..25 |-> i - 1]

\* bigquery_writer.py, lines 84-88: binding the positional arguments of a
\* call; a parameter without default that gets no argument is a TypeError.
BindWriteArgs(argv) ==
    IF Len(argv) < 2 \/ Len(argv) > 3 THEN Raised
    ELSE Returned([ points |-> argv[1], cities |-> argv[2],
                    grid_samples |-> IF Len(argv) = 3 THEN argv[3] ELSE None ])

\* Arguments of _run_ingestion: with and without run_time and forecast_hours.
MainArgs ==
    [ model : {"hrrr", "gfs", "nam", "ecmwf"},
      run_time : {None, Some([day |-> 1, hour |-> 12, minute |-> 0])},
      forecast_hours : {None, Some(<<0, 3>>), Some(<<6>>)} ]

\* What read_grib2_for_cities returns: (results, grid_samples).
ReaderReturns ==
    LET pt == [city_slug |-> "durango", elevation_band |-> None]
        gp == [aoi_slug |-> "la_plata_county", lat |-> 3725, lon |-> 0 - 10800]
    IN  { << << >>, << >> >>, << <<pt>>, << >> >>, << <<pt>>, <<gp>> >> }

InitMain ==
    /\ IdxIdle
    /\ RunIdle
    /\ FnIdle
    /\ WriteIdle
    /\ CITIES \in {<< >>, cities}
    /\ m_args \in MainArgs
    /\ m_pc = "start"
    /\ m_run_time = None
    /\ m_forecast_hours = None
    /\ m_points = None
    /\ m_result = None

\* Lines 76-77: `if not CITIES: raise HTTPException(status_code=500, ...)`.
CheckCities ==
    /\ m_pc = "start"
    /\ IF DOMAIN CITIES = {}
       THEN /\ m_pc' = "raised"
            /\ m_result' = Some([exception |-> "HTTPException", status_code |-> 500])
       ELSE /\ m_pc' = "defaults"
            /\ UNCHANGED m_result
    /\ UNCHANGED <<idx_vars, run_vars, fn_vars, write_vars, CITIES, m_args, m_run_time,
                   m_forecast_hours, m_points>>

\* Lines 79-83: the defaults of run_time and forecast_hours; an exception of
\* get_latest_run_time leaves _run_ingestion.
ResolveDefaults ==
    /\ m_pc = "defaults"
    /\ \E now \in NowPool :
          LET latest == IF m_args.run_time = None
                        THEN get_latest_run_time(m_args.model, now)
                        ELSE Returned(Val(m_args.run_time))
          IN  IF latest.raised
              THEN /\ m_pc' = "raised"
                   /\ m_result' = Some([exception |-> "ValueError", status_code |-> 0])
                   /\ UNCHANGED <<m_run_time, m_forecast_hours>>
              ELSE /\ m_pc' = "read"
                   /\ m_run_time' = Some(latest.value)
                   /\ m_forecast_hours' =
                         IF m_args.forecast_hours = None
                         THEN Some(get_default_forecast_hours(m_args.model))
                         ELSE m_args.forecast_hours
                   /\ UNCHANGED m_result
    /\ UNCHANGED <<idx_vars, run_vars, fn_vars, write_vars, CITIES, m_args, m_points>>

\* Line 94: points = await read_grib2_for_cities(model, run_time,
\* forecast_hours, CITIES); the index and range requests are made here.
CallReader ==
    /\ m_pc = "read"
    /\ \E returned \in ReaderReturns : m_points' = Some(returned)
    /\ m_pc' = "write"
    /\ UNCHANGED <<idx_vars, run_vars, fn_vars, write_vars, CITIES, m_args, m_run_time,
                   m_forecast_hours, m_result>>

\* Lines 95-110: rows_written = await write_forecast_points(points), then the
\* response.  The writer's count is the number of point records it is given.
CallWriter ==
    /\ m_pc = "write"
    /\ LET bound == BindWriteArgs(<<Val(m_points)>>)
       IN  IF bound.raised
           THEN /\ m_pc' = "raised"
                /\ m_result' = Some([exception |-> "TypeError", status_code |-> 0])
           ELSE /\ m_pc' = "done"
                /\ m_result' = Some([ exception |-> "",
                                      model |-> UpperName(m_args.model),
                                      run_time |-> m_run_time,
                                      forecast_hours |-> Len(Val(m_forecast_hours)),
                                      cities_processed |-> Cardinality(DOMAIN CITIES),
                                      written |-> bound.value,
                                      rows_written |-> Len(bound.value.points) ])
    /\ UNCHANGED <<idx_vars, run_vars, fn_vars, write_vars, CITIES, m_args, m_run_time,
                   m_forecast_hours, m_points>>

NextMain ==
    \/ CheckCities
    \/ ResolveDefaults
    \/ CallReader
    \/ CallWriter

SpecMain == InitMain /\ [][NextMain]_vars

(***************************************************************************)
(* Claims about the index functions (checked under SpecIdx).               *)
(***************************************************************************)
AcceptedCodes(k) == name_map[GRIB2_VARIABLES[k].shortName]

\* The probe is a height-above-ground spec against an entry with an
\* accepted variable code.
HeightProbe(p) ==
    /\ GRIB2_VARIABLES[p.var_key].typeOfLevel = "heightAboveGround"
    /\ p.entry.var_name \in AcceptedCodes(p.var_key)

\* The level string is "M m above ground" for a decimal number M.
IsHeightLevel(lvl) ==
    /\ Len(lvl) > Len(S_m_above_ground)
    /\ SubSeq(lvl, Len(lvl) - Len(S_m_above_ground) + 1, Len(lvl)) = S_m_above_ground
    /\ IsDigits(SubSeq(lvl, 1, Len(lvl) - Len(S_m_above_ground)))

HeightOf(lvl) == SubSeq(lvl, 1, Len(lvl) - Len(S_m_above_ground))

\* C1: for a height-above-ground spec with level N and an entry with an
\* accepted code, _match_idx_entry rejects the level "N mb" and accepts the
\* level "N m above ground".
C1_PressureLevelRejected ==
    \A i \in 1..Len(match_probe) :
        LET p == match_probe[i]
            N == GRIB2_VARIABLES[p.var_key].level
        IN  HeightProbe(p) =>
              /\ (p.entry.level = N \o S_mb => p.result = FALSE)
              /\ (p.entry.level = N \o S_m_above_ground => p.result = TRUE)

\* C1 witness: the 2 m temperature spec was matched against "TMP:2 mb" and
\* the entry was rejected.
C1_Witness ==
    /\ match_probe # None
    /\ match_probe[1].var_key = "temperature_2m"
    /\ match_probe[1].entry.var_name = S_TMP
    /\ match_probe[1].entry.level = <<"2">> \o S_mb
    /\ match_probe[1].result = FALSE

\* C2 (as claimed): a height-above-ground spec with level N rejects every
\* entry "M m above ground" with M different from N.
C2_OnlyExactHeightMatches ==
    \A i \in 1..Len(match_probe) :
        LET p == match_probe[i]
            N == GRIB2_VARIABLES[p.var_key].level
        IN  ( /\ HeightProbe(p)
              /\ IsHeightLevel(p.entry.level)
              /\ HeightOf(p.entry.level) # N ) => p.result = FALSE

\* C3 (as claimed): in the list _parse_idx_file returns, every descriptor
\* but the last ends at the offset of the descriptor that follows it, and
\* the last descriptor has no end offset.
C3_EndIsNextOffset ==
    idx_pc = "parsed" =>
        LET es == entries.value
        IN  /\ \A i \in 1..(Len(es) - 1) : es[i].end_offset = Some(es[i + 1].offset)
            /\ Len(es) > 0 => es[Len(es)].end_offset = None

\* C4: _find_byte_ranges maps every variable to the range of the earliest
\* entry in file order that the matcher accepts, whatever the offsets of later
\* matches; an unmatched variable is absent; it raises only when the parse
\* raises; each variable holds one <<offset, end offset>> pair.
C4_FirstMatchWins ==
    /\ idx_pc = "find_raised" => entries.raised
    /\ idx_pc = "resolved" =>
         LET es == entries.value
             m == ranges.value
         IN  /\ ~entries.raised
             /\ DOMAIN m \subseteq VarKeys
             /\ \A k \in VarKeys :
                  LET ok(i) == _match_idx_entry(es[i], GRIB2_VARIABLES[k])
                  IN  /\ (k \notin DOMAIN m) <=> (\A i \in 1..Len(es) : ~ok(i))
                      /\ k \in DOMAIN m =>
                           \E i \in 1..Len(es) :
                              /\ ok(i)
                              /\ \A j \in 1..(i - 1) : ~ok(j)
                              /\ m[k] = <<es[i].offset, es[i].end_offset>>

\* C4 witness: two entries match one variable, the later one at a smaller
\* offset, the earlier one is the range returned, and another variable is
\* absent from the map.
C4_Witness ==
    /\ idx_pc = "resolved"
    /\ \E k \in DOMAIN ranges.value :
         \E i, j \in 1..Len(entries.value) :
            /\ i < j
            /\ _match_idx_entry(entries.value[i], GRIB2_VARIABLES[k])
            /\ _match_idx_entry(entries.value[j], GRIB2_VARIABLES[k])
            /\ entries.value[j].offset < entries.value[i].offset
            /\ ranges.value[k][1] = entries.value[i].offset
    /\ \E k \in VarKeys : k \notin DOMAIN ranges.value

(***************************************************************************)
(* Claims about read_grib2_for_cities (checked under Spec).                *)
(***************************************************************************)
ValidTimeOf(i) == args.run_time + hour_log[i].fhr

\* The eight metrics of a PointRecord.
MetricFields ==
    { "temperature_2m", "precip_kg_m2", "wind_speed_10m", "wind_dir_10m",
      "snow_depth", "freezing_level_m", "cape", "relative_humidity" }

SomeMetric(m) == \E f \in MetricFields : m[f] # None

\* The hour-log entries of the forecast hour a record belongs to.
HoursOf(r) == {i \in DOMAIN hour_log : ValidTimeOf(i) = r.valid_time}

RecordsOf(c, i) ==
    {n \in DOMAIN results :
        results[n].city_slug = c /\ results[n].valid_time = ValidTimeOf(i)}

BaseRecordsOf(c, i) == {n \in RecordsOf(c, i) : results[n].elevation_band = None}

\* C5: a metric of a PointRecord or GridSamplePoint of forecast hour h is
\* non-null only if its variable was resolved in h's index and decoded in
\* hour h (wind speed and direction need both components); a variable absent
\* from the ranges of hour h is null in every record of that hour.
C5_NullUnlessDecodedThisHour ==
    /\ \A n \in DOMAIN results :
         LET r == results[n]
         IN  /\ HoursOf(r) # {}
             /\ \A i \in HoursOf(r) :
                  LET ok(k) == k \in hour_log[i].resolved /\ k \in hour_log[i].decoded
                  IN  /\ r.temperature_2m # None => ok("temperature_2m")
                      /\ r.precip_kg_m2 # None => ok("precip")
                      /\ r.wind_speed_10m # None => ok("wind_u_10m") /\ ok("wind_v_10m")
                      /\ r.wind_dir_10m # None => ok("wind_u_10m") /\ ok("wind_v_10m")
                      /\ r.snow_depth # None => ok("snow_depth")
                      /\ r.freezing_level_m # None => ok("freezing_level")
                      /\ r.cape # None => ok("cape")
                      /\ r.relative_humidity # None => ok("relative_humidity")
    /\ \A n \in DOMAIN grid_samples :
         LET g == grid_samples[n]
         IN  /\ HoursOf(g) # {}
             /\ \A i \in HoursOf(g) :
                  LET ok(k) == k \in hour_log[i].resolved /\ k \in hour_log[i].decoded
                  IN  /\ g.temperature_2m # None => ok("temperature_2m")
                      /\ g.precip_kg_m2 # None => ok("precip")
                      /\ g.wind_u_10m # None => ok("wind_u_10m")
                      /\ g.wind_v_10m # None => ok("wind_v_10m")
                      /\ g.snow_depth # None => ok("snow_depth")
                      /\ g.relative_humidity # None => ok("relative_humidity")

\* C5 witness: hour 1 decoded the temperature, hour 2's index did not resolve
\* it, and hour 2 emitted a point record and a grid sample, both with a null
\* temperature.
C5_Witness ==
    /\ Len(hour_log) >= 2
    /\ "temperature_2m" \in hour_log[1].decoded
    /\ "temperature_2m" \notin hour_log[2].resolved
    /\ \E n \in DOMAIN results :
          results[n].valid_time = ValidTimeOf(2) /\ results[n].temperature_2m = None
    /\ \E n \in DOMAIN grid_samples :
          /\ grid_samples[n].valid_time = ValidTimeOf(2)
          /\ grid_samples[n].temperature_2m = None

\* C6: when reading or parsing the index of forecast hour h fails, nothing
\* with the valid time of h is emitted, the later hours are processed in
\* schedule order, the records of the other hours stay, and the run returns.
C6_IndexFailureSkipsOnlyThatHour ==
    /\ pc \in {"loop", "read_idx", "fetch", "aoi", "cities", "done"}
    /\ \A i \in DOMAIN hour_log :
         /\ hour_log[i].fhr = forecast_hours[i]
         /\ hour_log[i].status = "failed" =>
               /\ \A n \in DOMAIN results : results[n].valid_time # ValidTimeOf(i)
               /\ \A n \in DOMAIN grid_samples :
                     grid_samples[n].valid_time # ValidTimeOf(i)
         /\ hour_log[i].status = "done" =>
               \A c \in DOMAIN hour_log[i].metrics :
                  SomeMetric(hour_log[i].metrics[c]) => BaseRecordsOf(c, i) # {}
    /\ pc = "done" =>
         /\ Len(hour_log) = Len(forecast_hours)
         /\ \A i \in DOMAIN hour_log : hour_log[i].status # "running"

\* C6 witness: the run returned; the index of hour 1 failed, hour 2 was
\* processed and its records were returned.
C6_Witness ==
    /\ pc = "done"
    /\ hour_log[1].status = "failed"
    /\ hour_log[2].status = "done"
    /\ \E n \in DOMAIN results : results[n].valid_time = ValidTimeOf(2)

\* The metrics the decoded variables of hour i give for a city.
DecodedMetrics(i, c) ==
    CityMetrics([k \in hour_log[i].decoded |-> RemoteFiles[Val(hour_log[i].file)].messages[k]],
                cities[c])

\* C7: within a forecast hour a failed range request or decode removes only
\* that variable from the decoded set: every resolved variable is requested,
\* the hour is not aborted, and the point records are built from the
\* variables that succeeded (the metrics are compared with the decoded
\* messages when the hour completes, the records whenever the hour is done).
C7_FieldFailureSkipsOnlyThatField ==
    \A i \in DOMAIN hour_log :
        LET e == hour_log[i]
        IN  /\ e.requested \subseteq e.resolved
            /\ e.failed \cup e.decoded = e.requested
            /\ e.failed \cap e.decoded = {}
            /\ e.resolved # {} => e.status # "failed"
            /\ (e.status = "done" \/ (i = fh_i /\ pc \in {"aoi", "cities"})) =>
                   e.requested = e.resolved
            /\ (e.status = "running" /\ i = fh_i /\ pc \in {"aoi", "cities"}) =>
                   DOMAIN var_data = e.decoded
            /\ (e.status = "done" /\ i = fh_i - 1 /\ pc = "loop") =>
                   \A c \in DOMAIN cities : e.metrics[c] = DecodedMetrics(i, c)
            /\ e.status = "done" =>
                   \A c \in DOMAIN cities :
                      /\ c \in DOMAIN e.metrics
                      /\ SomeMetric(e.metrics[c]) =>
                            \E n \in BaseRecordsOf(c, i) :
                               \A f \in DOMAIN e.metrics[c] :
                                  results[n][f] = e.metrics[c][f]

\* Position of a variable in the iteration order.
VarIndex(k) == CHOOSE n \in 1..Len(VarOrder) : VarOrder[n] = k

\* C7 witness: an hour is done in which one variable failed, a variable
\* after it was still requested and decoded, and a point record was built.
C7_Witness ==
    \E i \in DOMAIN hour_log :
        /\ hour_log[i].status = "done"
        /\ \E k \in hour_log[i].failed, k2 \in hour_log[i].decoded :
              VarIndex(k) < VarIndex(k2)
        /\ \E c \in DOMAIN cities : BaseRecordsOf(c, i) # {}

\* C8: for every city and forecast hour the base record is emitted if and
\* only if one of the eight metrics is non-null; when all are null no record
\* of that city and hour is emitted, with or without elevation band.
C8_BaseRecordIffSomeMetric ==
    /\ \A i \in DOMAIN hour_log :
         \A c \in DOMAIN cities :
            IF c \in DOMAIN hour_log[i].metrics
            THEN LET m == hour_log[i].metrics[c]
                     some == SomeMetric(m)
                 IN  /\ some <=> Cardinality(BaseRecordsOf(c, i)) = 1
                     /\ ~some => RecordsOf(c, i) = {}
            ELSE RecordsOf(c, i) = {}
    /\ \A n \in DOMAIN results : HoursOf(results[n]) # {}

\* C8 witness: in one hour a city with every metric null got no record while
\* another city, with only freezing level and CAPE non-null, got its record.
C8_Witness ==
    \E i \in DOMAIN hour_log :
        \E c, d \in DOMAIN hour_log[i].metrics :
            /\ \A f \in MetricFields : hour_log[i].metrics[c][f] = None
            /\ RecordsOf(c, i) = {}
            /\ hour_log[i].metrics[d].freezing_level_m # None
            /\ hour_log[i].metrics[d].temperature_2m = None
            /\ BaseRecordsOf(d, i) # {}

\* C9 (as claimed): every record with an elevation band b has a base record
\* of the same city, model, run and valid time, copies its seven other
\* metrics, and its temperature is base - 0.0065 * (b - 1500) for every
\* non-null base temperature, 0 included, and null only for a null base.
C9_BandDerivedFromBase ==
    \A n \in DOMAIN results :
        LET r == results[n]
        IN  r.elevation_band # None =>
              \E j \in DOMAIN results :
                 LET b == results[j]
                 IN  /\ b.elevation_band = None
                     /\ b.city_slug = r.city_slug
                     /\ b.model_name = r.model_name
                     /\ b.run_time = r.run_time
                     /\ b.valid_time = r.valid_time
                     /\ \A f \in MetricFields \ {"temperature_2m"} : r[f] = b[f]
                     /\ r.temperature_2m =
                          IF b.temperature_2m = None THEN None
                          ELSE Some(RoundDiv(100 * Val(b.temperature_2m)
                                   - lapse_rate_e4 * (Val(r.elevation_band) - base_elev),
                                   100))

\* C10: an hour whose index resolves the temperature alone and whose decoder
\* returns a grid emits, for a city lying exactly on a grid coordinate with a
\* value there, one base record with that value as temperature and with
\* valid time run time + forecast hour.
C10_EndToEndTemperature ==
    \A i \in DOMAIN hour_log :
        LET e == hour_log[i]
        IN  ( /\ e.status = "done"
              /\ e.resolved = {"temperature_2m"}
              /\ e.decoded = {"temperature_2m"} ) =>
            LET ds == RemoteFiles[Val(e.file)].messages["temperature_2m"]
            IN  \A c \in DOMAIN cities :
                  \A a \in DOMAIN ds.lats, b \in DOMAIN ds.lons :
                     ( /\ ds.lats[a] = cities[c].lat
                       /\ ds.lons[b] = cities[c].lon
                       /\ ds.cells[1][<<a, b>>] # NaN ) =>
                        /\ Cardinality({n \in DOMAIN results :
                              /\ results[n].city_slug = c
                              /\ results[n].elevation_band = None
                              /\ results[n].valid_time = args.run_time + forecast_hours[i]}) = 1
                        /\ \A n \in BaseRecordsOf(c, i) :
                              results[n].temperature_2m = ds.cells[1][<<a, b>>]

\* C10 witness: the second forecast hour (f003) read the temperature-only
\* index, and the record of the city on the grid coordinate carries the grid
\* value 280.00 K and the valid time run time + 3 h.
C10_Witness ==
    /\ Len(hour_log) >= 2
    /\ hour_log[2].status = "done"
    /\ hour_log[2].resolved = {"temperature_2m"}
    /\ hour_log[2].decoded = {"temperature_2m"}
    /\ \E n \in DOMAIN results :
          /\ results[n].city_slug = "durango"
          /\ results[n].elevation_band = None
          /\ results[n].valid_time = args.run_time + hour_step
          /\ results[n].temperature_2m = Some(28000)

\* The range requests issued in forecast hour i for variable k.
RequestsOf(i, k) ==
    {n \in DOMAIN requests :
        requests[n].fhr = hour_log[i].fhr /\ requests[n].var_key = k}

\* C11: in a forecast hour every variable of the resolved ranges gets exactly
\* one range request, to the URL of the hour's file, failed or not, and no
\* other request is issued; the Range header is "bytes=start-(end-1)" for a
\* range with an end offset and "bytes=start-" for an open-ended range.
C11_OneRangeRequestPerVariable ==
    /\ \A n \in DOMAIN requests :
          \E i \in DOMAIN hour_log :
             /\ requests[n].fhr = hour_log[i].fhr
             /\ requests[n].var_key \in hour_log[i].resolved
             /\ requests[n].url = [model |-> args.model, run_time |-> args.run_time,
                                   forecast_hour |-> forecast_hours[i]]
    /\ \A i \in DOMAIN hour_log :
          /\ \A k \in hour_log[i].requested : Cardinality(RequestsOf(i, k)) = 1
          /\ \A k \in VarKeys \ hour_log[i].requested : RequestsOf(i, k) = {}
          /\ (hour_log[i].status = "done" \/ (i = fh_i /\ pc \in {"aoi", "cities"})) =>
                \A k \in hour_log[i].resolved : Cardinality(RequestsOf(i, k)) = 1
          /\ (i = fh_i /\ pc \in {"fetch", "aoi", "cities"}) =>
                \A n \in DOMAIN requests :
                   requests[n].fhr = hour_log[i].fhr =>
                      LET start == byte_ranges[requests[n].var_key][1]
                          end == byte_ranges[requests[n].var_key][2]
                      IN  requests[n].range =
                            IF end # None
                            THEN <<"b","y","t","e","s","=">> \o IntToStr(start) \o <<"-">>
                                    \o IntToStr(Val(end) - 1)
                            ELSE <<"b","y","t","e","s","=">> \o IntToStr(start) \o <<"-">>

\* C11 witness: an hour is done in which a variable failed and was requested
\* once, with one request for a range with an end ("bytes=0-39") and one
\* for an open-ended range ("bytes=40-").
C11_Witness ==
    \E i \in DOMAIN hour_log :
        /\ hour_log[i].status = "done"
        /\ hour_log[i].failed # {}
        /\ \A k \in hour_log[i].resolved : Cardinality(RequestsOf(i, k)) = 1
        /\ \E n, m \in DOMAIN requests :
              /\ requests[n].fhr = hour_log[i].fhr
              /\ requests[m].fhr = hour_log[i].fhr
              /\ requests[n].range = <<"b","y","t","e","s","=","0","-","3","9">>
              /\ requests[m].range = <<"b","y","t","e","s","=","4","0","-">>

(***************************************************************************)
(* Claims about the pure functions (checked under SpecFn).                 *)
(***************************************************************************)
Called(fn) == call.fn = fn

\* What one lookup of the claim yields: the value found at the nearest cell
\* for the given longitude, None when it is missing or the lookup fails.
LookupYields(ds, lat, lon_val, var_name) ==
    LET a == Attempt(ds, lat, lon_val, var_name)
    IN  IF a.kind = "return" THEN a.value ELSE None

\* C12 (as claimed): _extract_nearest_value returns the value of the first of
\* the two lookups, at the signed longitude and at lon mod 360, that yields a
\* non-missing value; it is null only if both yield none.
C12_FirstNonMissingOfBothConventions ==
    Called("_extract_nearest_value") =>
        LET a == call.args
            signed == LookupYields(a.ds, a.lat, a.lon, a.var_name)
            wrapped == LookupYields(a.ds, a.lat, a.lon % 36000, a.var_name)
        IN  call.result = IF signed # None THEN signed ELSE wrapped

\* The lattice of the claim: min + i * r within the bounding box.
LatticePoints(aoi) ==
    { <<la, lo>> \in (aoi.min_lat..aoi.max_lat) \X (aoi.min_lon..aoi.max_lon) :
        /\ (la - aoi.min_lat) % resolution_deg = 0
        /\ (lo - aoi.min_lon) % resolution_deg = 0 }

\* C13: _aoi_target_points returns, each once, the lattice points of the
\* bounding box that pass the containment test: all of them for an empty
\* polygon, those with _point_in_polygon true otherwise.
C13_LatticeClippedByPolygon ==
    Called("_aoi_target_points") =>
        LET aoi == call.args.aoi
            pts == call.result
        IN  /\ \A i, j \in DOMAIN pts : i # j => pts[i] # pts[j]
            /\ {pts[i] : i \in DOMAIN pts} =
                 { pt \in LatticePoints(aoi) :
                     \/ Len(aoi.polygon) = 0
                     \/ _point_in_polygon(pt[1], pt[2], aoi.polygon) }

\* C13 witness: a call with a polygon that keeps some lattice points of the
\* bounding box and drops others.
C13_Witness ==
    /\ Called("_aoi_target_points")
    /\ Len(call.args.aoi.polygon) >= 3
    /\ Len(call.result) > 0
    /\ Len(call.result) < Cardinality(LatticePoints(call.args.aoi))

\* C18: _compute_wind returns (null, null) when u or v is null and two
\* non-null values otherwise; (0, -5) gives speed 5 and direction 0,
\* (-5, 0) gives 90, (0, 5) gives 180 and (5, 0) gives 270, each at speed 5.
C18_WindFromDirection ==
    Called("_compute_wind") =>
        LET u == call.args.u
            v == call.args.v
            r == call.result
        IN  /\ (u = None \/ v = None) => r = <<None, None>>
            /\ (u # None /\ v # None) => (r[1] # None /\ r[2] # None)
            /\ (u = Some(0) /\ v = Some(0 - 500)) => r = <<Some(500), Some(0)>>
            /\ (u = Some(0 - 500) /\ v = Some(0)) => r = <<Some(500), Some(900)>>
            /\ (u = Some(0) /\ v = Some(500)) => r = <<Some(500), Some(1800)>>
            /\ (u = Some(500) /\ v = Some(0)) => r = <<Some(500), Some(2700)>>

\* C18 witness: the call with u = 0, v = -5 returned speed 5, direction 0.
C18_Witness ==
    /\ Called("_compute_wind")
    /\ call.args = [u |-> Some(0), v |-> Some(0 - 500)]
    /\ call.result = <<Some(500), Some(0)>>

\* C19 (as claimed): _lapse_rate_adjust(280 K, 3500 m) returns 266.99.
C19_LapseExample ==
    (Called("_lapse_rate_adjust") /\ call.args = [temp_k |-> 28000, elevation_m |-> 3500])
        => call.result = 26699

\* C19 (amended): _lapse_rate_adjust(280 K, 3500 m), reference 1500 m and
\* lapse rate 0.0065 K/m, returns 280 - 0.0065 * 2000 = 267.00.
C19_LapseExampleAmended ==
    (Called("_lapse_rate_adjust") /\ call.args = [temp_k |-> 28000, elevation_m |-> 3500])
        => call.result = 26700

\* C19 witness: the call of the example was made.
C19_Witness ==
    /\ Called("_lapse_rate_adjust")
    /\ call.args = [temp_k |-> 28000, elevation_m |-> 3500]
    /\ call.result = 26700

(***************************************************************************)
(* Further claims about the index functions (checked under SpecIdx).       *)
(***************************************************************************)
\* The lines of the text with at least six colon-separated fields, in order.
LongLines(content) ==
    SelectSeq(Split(Strip(content), "\n"), LAMBDA l : Len(Split(l, ":")) >= 6)

\* C20 (as claimed): a line with fewer than six fields never makes
\* _parse_idx_file fail, wherever it stands and whatever it holds: when the
\* lines of six fields are well formed the parse returns, with one descriptor
\* per such line, in file order.
C20_ShortLinesNeverFatal ==
    ( /\ idx_pc \in {"parsed", "parse_raised"}
      /\ \A n \in DOMAIN LongLines(idx_content) :
            LET parts == Split(LongLines(idx_content)[n], ":")
            IN  IntParses(parts[2]) /\ FloatKind(parts[1]) # "inf" ) =>
        /\ ~entries.raised
        /\ Len(entries.value) = Len(LongLines(idx_content))
        /\ \A n \in DOMAIN entries.value :
              LET parts == Split(LongLines(idx_content)[n], ":")
              IN  /\ entries.value[n].offset = IntValue(parts[2])
                  /\ entries.value[n].var_name = parts[4]
                  /\ entries.value[n].level = parts[5]

(***************************************************************************)
(* Claims about bigquery_writer.py, under SpecWrite.                        *)
(***************************************************************************)
\* The tile tables have been built from the sampled rows.
TilesBuilt == table \in {"grid_tiles", "grid_tile_fields"}

\* The whole degree at or below x hundredths of a degree.
DegreeFloor(x) == CHOOSE k \in (0 - 181)..181 : k * 100 <= x /\ x < (k + 1) * 100

SameTileInputs(a, b) ==
    /\ a.model_name = b.model_name
    /\ a.run_time = b.run_time
    /\ a.valid_time = b.valid_time
    /\ DegreeFloor(a.lat) = DegreeFloor(b.lat)
    /\ DegreeFloor(a.lon) = DegreeFloor(b.lon)

GroupsHolding(r) == {g \in DOMAIN tile_groups : r \in Range(tile_groups[g].group)}

RECURSIVE SumLen(_)
SumLen(ss) == IF ss = << >> THEN 0 ELSE Len(ss[1]) + SumLen(Tail(ss))

\* C15: two sampled rows are in the same tile exactly when they agree on
\* model, run time, valid time, floor(lat) and floor(lon), the floor being
\* towards minus infinity; every sampled row is in exactly one tile, every
\* tile holds at least one row, and there is one tile row per tile.
C15_TileIffSameKeyAndFloors ==
    TilesBuilt =>
        /\ \A a, b \in Range(sampled_rows) :
              (GroupsHolding(a) \cap GroupsHolding(b) # {}) <=> SameTileInputs(a, b)
        /\ \A r \in Range(sampled_rows) : Cardinality(GroupsHolding(r)) = 1
        /\ SumLen([g \in DOMAIN tile_groups |-> tile_groups[g].group]) = Len(sampled_rows)
        /\ \A g \in DOMAIN tile_groups : tile_groups[g].group # << >>
        /\ Len(tile_rows) = Len(tile_groups)
        /\ \A g, h \in DOMAIN tile_rows :
              g # h => <<tile_rows[g].model_name, tile_rows[g].run_time,
                         tile_rows[g].valid_time, tile_rows[g].tile_id>>
                       # <<tile_rows[h].model_name, tile_rows[h].run_time,
                           tile_rows[h].valid_time, tile_rows[h].tile_id>>

\* Rows at negative, non-integer longitudes of one degree cell share a
\* tile, and a row of the next cell is in another tile.
C15_Witness ==
    /\ TilesBuilt
    /\ \E a, b, c \in Range(sampled_rows) :
          /\ a.lon < 0 /\ b.lon < 0 /\ a.lon # b.lon /\ b.lon % 100 # 0
          /\ GroupsHolding(a) = GroupsHolding(b)
          /\ SameTileInputs(a, c) = FALSE
          /\ GroupsHolding(a) \cap GroupsHolding(c) = {}

\* The calls of the sink for one table, in the order they were made.
CallsFor(t) == SelectSeq(sink, LAMBDA c : c.table = t)

\* The row list write_forecast_points hands to _insert_rows_batched.
RowListOf(t) ==
    CASE t = "forecast_runs" ->
           [n \in DOMAIN w_args.points |-> _forecast_point_to_row(w_args.points[n])]
      [] t = "grid_points_sampled" -> sampled_rows
      [] t = "grid_tiles" -> tile_rows
      [] t = "grid_tile_fields" -> field_rows

TableOrder == <<"forecast_runs", "grid_points_sampled", "grid_tiles", "grid_tile_fields">>

TableIndex(t) == CHOOSE n \in DOMAIN TableOrder : TableOrder[n] = t

\* _insert_rows_batched has returned for table t.
InsertFinished(t) ==
    /\ table # ""
    /\ \/ TableIndex(t) < TableIndex(table) /\ CallsFor(t) # << >>
       \/ t = table /\ batch_i >= Len(rows) /\ w_pc # "raised"

BatchesOf(t) == Flatten([n \in DOMAIN CallsFor(t) |-> CallsFor(t)[n].batch])

IsPrefix(a, b) == Len(a) <= Len(b) /\ a = SubSeq(b, 1, Len(a))

\* C16: every insert call carries between 1 and 500 rows, and the batches
\* of a table, concatenated in call order, are a prefix of the row list
\* while the call runs and exactly the row list once it has returned.
C16_BatchesPartitionRows ==
    /\ \A n \in DOMAIN sink : Len(sink[n].batch) >= 1 /\ Len(sink[n].batch) <= 500
    /\ \A n \in DOMAIN TableOrder :
          LET t == TableOrder[n]
          IN  /\ CallsFor(t) # << >> => IsPrefix(BatchesOf(t), RowListOf(t))
              /\ InsertFinished(t) => BatchesOf(t) = RowListOf(t)

\* 1001 point rows went out as batches of 500, 500 and 1.
C16_Witness ==
    /\ InsertFinished("forecast_runs")
    /\ Len(CallsFor("forecast_runs")) = 3
    /\ Len(CallsFor("forecast_runs")[1].batch) = 500
    /\ Len(CallsFor("forecast_runs")[2].batch) = 500
    /\ Len(CallsFor("forecast_runs")[3].batch) = 1

\* Offsets 0, 500, 1000, ... below n.
OffsetsBelow(n) == {k * 500 : k \in {j \in 0..((n + 499) \div 500) : j * 500 < n}}

RECURSIVE AcceptedRows(_)
AcceptedRows(calls) ==
    IF calls = << >> THEN 0
    ELSE (IF calls[1].errors THEN 0 ELSE Len(calls[1].batch)) + AcceptedRows(Tail(calls))

\* C17: errors reported for a batch stop nothing: no batch is submitted
\* twice, unless the sink raises every table's batches up to the current
\* position have been submitted whatever the sink answered, a finished
\* write has submitted every batch of every table it built, and it returns
\* the number of rows in the point-record batches that had no error.
C17_ErrorsSkipNothingAndAreNotRetried ==
    /\ \A m, n \in DOMAIN sink :
          m # n => <<sink[m].table, sink[m].offset>> # <<sink[n].table, sink[n].offset>>
    /\ w_pc = "insert" =>
          {CallsFor(table)[n].offset : n \in DOMAIN CallsFor(table)} = OffsetsBelow(batch_i)
    /\ \A n \in DOMAIN TableOrder :
          InsertFinished(TableOrder[n]) =>
              {c.offset : c \in Range(CallsFor(TableOrder[n]))}
                  = OffsetsBelow(Len(RowListOf(TableOrder[n])))
    /\ w_pc = "done" /\ w_args.points # << >> =>
          /\ w_return = Some(AcceptedRows(CallsFor("forecast_runs")))
          /\ sampled_rows # << >> => \A n \in DOMAIN TableOrder : InsertFinished(TableOrder[n])

\* The first batch of point records was rejected, the later batches and
\* the three later tables were still submitted, and only the rows of the
\* accepted batches are counted.
C17_Witness ==
    /\ w_pc = "done"
    /\ Len(CallsFor("forecast_runs")) = 3
    /\ CallsFor("forecast_runs")[1].errors
    /\ CallsFor("forecast_runs")[2].errors = FALSE
    /\ CallsFor("forecast_runs")[3].errors = FALSE
    /\ CallsFor("grid_points_sampled")[1].errors
    /\ CallsFor("grid_tiles") # << >>
    /\ CallsFor("grid_tile_fields") # << >>
    /\ w_return = Some(501)

\* The orders in which a list of n elements can be given.
Orders(n) == {p \in [1..n -> 1..n] : \A i, j \in 1..n : i # j => p[i] # p[j]}

Reorder(seq, p) == [n \in DOMAIN seq |-> seq[p[n]]]

\* The sampled rows of the same input given in another order.
ReorderedSampledRows ==
    IF w_args.grid_samples # << >>
    THEN {SampledRows(w_args.points, Reorder(w_args.grid_samples, p), ingest_id, created_at) :
            p \in Orders(Len(w_args.grid_samples))}
    ELSE {SampledRows(Reorder(w_args.points, p), w_args.grid_samples, ingest_id, created_at) :
            p \in Orders(Len(w_args.points))}

\* C14: the tile aggregation does not depend on the order of the input: any
\* order yields the same set of tile rows and the same set of field rows
\* (minimum, maximum, mean, null count, bounding coordinates, distinct row
\* and column counts).
C14_TileAggregationOrderIndependent ==
    TilesBuilt =>
        \A other \in ReorderedSampledRows :
            /\ Range(TileRows(TileGroups(other), ingest_id, created_at)) = Range(tile_rows)
            /\ Range(FieldRows(TileGroups(other), ingest_id, created_at)) = Range(field_rows)

(***************************************************************************)
(* Claims about _match_idx_entry called on its own, under SpecFn.          *)
(***************************************************************************)
\* The text holds "surface" in any mix of upper and lower case.
ContainsSurfaceAnyCase(text) ==
    LET lower == <<"s","u","r","f","a","c","e">>
        upper == <<"S","U","R","F","A","C","E">>
    IN  \E k \in 0..(Len(text) - 7) :
            \A i \in 1..7 : text[k + i] \in {lower[i], upper[i]}

\* The codes a canonical name accepts (the table of the specification).
CodesOf(short_name) ==
    CASE short_name = "2t" -> {<<"T","M","P">>}
      [] short_name = "10u" -> {<<"U","G","R","D">>}
      [] short_name = "10v" -> {<<"V","G","R","D">>}
      [] short_name = "tp" -> {<<"A","P","C","P">>, <<"P","R","A","T","E">>}
      [] short_name = "sde" -> {<<"S","N","O","D">>}
      [] short_name = "0deg" -> {<<"H","G","T">>}
      [] short_name = "cape" -> {<<"C","A","P","E">>}
      [] short_name = "2r" -> {<<"R","H">>}

\* C21: a spec whose level type is surface matches an entry with an
\* accepted variable code if and only if the entry's level contains
\* "surface", compared case-insensitively.
C21_SurfaceIffLevelContainsSurface ==
    ( /\ Called("_match_idx_entry")
      /\ call.args.var_config.typeOfLevel = "surface"
      /\ call.args.entry.var_name \in CodesOf(call.args.var_config.shortName) ) =>
        (call.result <=> ContainsSurfaceAnyCase(call.args.entry.level))

\* CAPE at "surface" matched the cape spec.
C21_Witness ==
    /\ Called("_match_idx_entry")
    /\ call.args.var_config.shortName = "cape"
    /\ call.args.var_config.typeOfLevel = "surface"
    /\ call.args.entry.var_name = <<"C","A","P","E">>
    /\ call.args.entry.level = <<"s","u","r","f","a","c","e">>
    /\ call.result = TRUE

\* C22: whatever the level type and the level string, an entry whose code
\* is not accepted by the spec's canonical name is rejected; a spec without
\* level constraint matches exactly the entries with an accepted code, and
\* the precipitation spec accepts APCP and PRATE.
C22_CodeGatesEveryLevelType ==
    Called("_match_idx_entry") =>
        LET accepted == call.args.entry.var_name \in CodesOf(call.args.var_config.shortName)
        IN  /\ ~accepted => call.result = FALSE
            /\ call.args.var_config.typeOfLevel = "" => (call.result <=> accepted)

\* The precipitation spec without level constraint matched a PRATE entry
\* whose level is not a surface level.
C22_Witness ==
    /\ Called("_match_idx_entry")
    /\ call.args.var_config.shortName = "tp"
    /\ call.args.var_config.typeOfLevel = ""
    /\ call.args.entry.var_name = <<"P","R","A","T","E">>
    /\ call.args.entry.level = <<"2">> \o S_m_above_ground
    /\ call.result = TRUE

\* C23: _extract_nearest_value never raises to its caller: for every grid,
\* coordinates and field hint it returns a number or null.
C23_ExtractNeverRaises ==
    Called("_extract_nearest_value") =>
        \/ call.result = None
        \/ Len(call.result) = 1 /\ call.result[1] \in Int

\* Calls that ended in null where the body had raised: on a grid without
\* data variables (IndexError at line 197), on a grid without latitude and
\* longitude names (unbound lat_dim at line 189), and on a cell whose value
\* cannot be converted (line 193 or 198).
C23_Witness ==
    /\ Called("_extract_nearest_value")
    /\ call.result = None
    /\ \/ call.args.ds.dims = "latitude" /\ call.args.ds.data_vars = << >>
       \/ call.args.ds.dims = "none"
       \/ /\ call.args.ds.dims \in {"latitude", "lat"}
          /\ call.args.ds.data_vars # << >>
          /\ call.args.ds.cells[1][SelNearest(call.args.ds, call.args.lat, call.args.lon)]
                = Unreadable

(***************************************************************************)
(* Claims about the datasets of a forecast hour (checked under Spec).      *)
(***************************************************************************)
\* C24 (as claimed): every decoded grid opened in forecast hour h is closed
\* before the next forecast hour begins and before the run returns, also
\* when hour h ends with an error after the grid was opened; a grid is
\* sampled only in the hour that opened it.
C24_GridsClosedWithTheirHour ==
    /\ \A d \in open_ds :
          /\ pc \in {"fetch", "aoi", "cities"}
          /\ d[1] = forecast_hours[fh_i]
    /\ pc \in {"aoi", "cities"} =>
          /\ DOMAIN var_data = hour_log[fh_i].decoded
          /\ \A k \in DOMAIN var_data : <<forecast_hours[fh_i], k>> \in open_ds

\* The run returned with a grid of an hour that ended with an error still
\* open.
C24_LeakAfterError ==
    /\ pc = "done"
    /\ \E i \in DOMAIN hour_log :
          /\ hour_log[i].status = "error"
          /\ \E k \in hour_log[i].decoded : <<hour_log[i].fhr, k>> \in open_ds

(***************************************************************************)
(* Claims about repeated invocations of write_forecast_points (checked     *)
(* under SpecWrite).                                                       *)
(***************************************************************************)
\* C25 (as claimed): two invocations of write_forecast_points on the same
\* point records and the same grid samples produce identical tile rows and
\* identical tile-field rows.
C25_TilesIdenticalOnSecondInvocation ==
    (earlier # None /\ w_pc = "done") =>
        /\ tile_rows = Val(earlier).tile_rows
        /\ field_rows = Val(earlier).field_rows

\* A row without its ingest_id and created_at.
Unstamped(row) == [f \in DOMAIN row \ {"ingest_id", "created_at"} |-> row[f]]

\* What does hold: the two invocations agree on every other column.
C25_TilesAgreeApartFromStamps ==
    (earlier # None /\ w_pc = "done") =>
        /\ Len(tile_rows) = Len(Val(earlier).tile_rows)
        /\ Len(field_rows) = Len(Val(earlier).field_rows)
        /\ \A n \in DOMAIN tile_rows :
              Unstamped(tile_rows[n]) = Unstamped(Val(earlier).tile_rows[n])
        /\ \A n \in DOMAIN field_rows :
              Unstamped(field_rows[n]) = Unstamped(Val(earlier).field_rows[n])

\* Both invocations built tiles, with different ingest ids.
C25_SecondInvocationDiffers ==
    /\ earlier # None
    /\ w_pc = "done"
    /\ tile_rows # << >>
    /\ Val(earlier).tile_rows # << >>
    /\ tile_rows[1].ingest_id # Val(earlier).tile_rows[1].ingest_id

(***************************************************************************)
(* Claims about the AOI lattice (checked under SpecFn).                    *)
(***************************************************************************)
\* C26 (as claimed): for a bounding box with min <= max on both axes and an
\* empty polygon, the points of _aoi_target_points include a point with
\* lat = min_lat, one with lat = max_lat, one with lon = min_lon and one
\* with lon = max_lon, also when max - min is not a whole multiple of the
\* resolution.
C26_LatticeIncludesBothBounds ==
    ( /\ Called("_aoi_target_points")
      /\ call.args.aoi.polygon = << >>
      /\ call.args.aoi.min_lat <= call.args.aoi.max_lat
      /\ call.args.aoi.min_lon <= call.args.aoi.max_lon ) =>
        LET aoi == call.args.aoi
            pts == call.result
        IN  /\ \E n \in DOMAIN pts : pts[n][1] = aoi.min_lat
            /\ \E n \in DOMAIN pts : pts[n][1] = aoi.max_lat
            /\ \E n \in DOMAIN pts : pts[n][2] = aoi.min_lon
            /\ \E n \in DOMAIN pts : pts[n][2] = aoi.max_lon

\* The default AOI (37.00..37.50, -108.35..-107.45): the longitude span 0.90
\* is not a multiple of 0.25 and no returned point has lon = max_lon.
C26_MaxLonMissing ==
    /\ Called("_aoi_target_points")
    /\ call.args.aoi.polygon = << >>
    /\ call.args.aoi.min_lon = 0 - 10835
    /\ call.args.aoi.max_lon = 0 - 10745
    /\ call.result # << >>
    /\ \A n \in DOMAIN call.result : call.result[n][2] # call.args.aoi.max_lon

(***************************************************************************)
(* Claims about the tile statistics (checked under SpecWrite).             *)
(***************************************************************************)
\* The sampled rows of the tile of tile row t.
SamplesOf(t) ==
    {n \in DOMAIN sampled_rows :
        /\ sampled_rows[n].model_name = t.model_name
        /\ sampled_rows[n].run_time = t.run_time
        /\ sampled_rows[n].valid_time = t.valid_time
        /\ sampled_rows[n].tile_id = t.tile_id}

TileFields ==
    {"temperature_2m", "precip_kg_m2", "wind_u_10m", "wind_v_10m", "snow_depth",
     "relative_humidity"}

\* The field rows of tile row t for field f.
FieldRowsOf(t, f) ==
    {n \in DOMAIN field_rows :
        /\ field_rows[n].model_name = t.model_name
        /\ field_rows[n].run_time = t.run_time
        /\ field_rows[n].valid_time = t.valid_time
        /\ field_rows[n].tile_id = t.tile_id
        /\ field_rows[n].field_name = f}

\* null_count, the null pattern of min, max and mean, and min and max
\* themselves, of field row r of tile row t.
FieldCountsRight(t, r) ==
    LET nulls == {n \in SamplesOf(t) : sampled_rows[n][r.field_name] = None}
        present == SamplesOf(t) \ nulls
    IN  /\ r.null_count = Cardinality(nulls)
        /\ r.null_count + Cardinality(present) = Cardinality(SamplesOf(t))
        /\ (present = {}) <=> (r.min_value = None)
        /\ (present = {}) <=> (r.max_value = None)
        /\ (present = {}) <=> (r.mean_value = None)
        /\ present # {} =>
              /\ \E n \in present : Val(sampled_rows[n][r.field_name]) = Val(r.min_value)
              /\ \E n \in present : Val(sampled_rows[n][r.field_name]) = Val(r.max_value)
              /\ \A n \in present :
                    /\ Val(r.min_value) <= Val(sampled_rows[n][r.field_name])
                    /\ Val(sampled_rows[n][r.field_name]) <= Val(r.max_value)

\* The bounding coordinates and the row and column counts of tile row t.
TileBoundsRight(t) ==
    LET lats == {sampled_rows[n].lat : n \in SamplesOf(t)}
        lons == {sampled_rows[n].lon : n \in SamplesOf(t)}
    IN  /\ SamplesOf(t) # {}
        /\ t.min_lat \in lats /\ \A x \in lats : t.min_lat <= x
        /\ t.max_lat \in lats /\ \A x \in lats : x <= t.max_lat
        /\ t.min_lon \in lons /\ \A x \in lons : t.min_lon <= x
        /\ t.max_lon \in lons /\ \A x \in lons : x <= t.max_lon
        /\ t.row_count = Cardinality(lats)
        /\ t.col_count = Cardinality(lons)

\* C27 (as claimed): for every emitted tile and each of its six fields,
\* null_count is the number of samples with a null field, null_count plus
\* the number of non-null values is the number of samples, min <= mean <= max
\* over the non-null values, and min, max and mean are null exactly when
\* every sample is null; the tile's bounds are the min and max lat/lon of its
\* samples and its row/column counts the numbers of distinct lats and lons.
C27_TileStatistics ==
    \A i \in DOMAIN tile_rows :
        LET t == tile_rows[i]
        IN  /\ TileBoundsRight(t)
            /\ \A f \in TileFields :
                  /\ Cardinality(FieldRowsOf(t, f)) = 1
                  /\ \A n \in FieldRowsOf(t, f) :
                        LET r == field_rows[n]
                        IN  /\ FieldCountsRight(t, r)
                            /\ r.mean_value # None =>
                                  /\ Val(r.min_value) <= Val(r.mean_value)
                                  /\ Val(r.mean_value) <= Val(r.max_value)

\* What does hold: everything but the position of the mean.
C27_AllButMeanOrder ==
    \A i \in DOMAIN tile_rows :
        /\ TileBoundsRight(tile_rows[i])
        /\ \A f \in TileFields :
              /\ Cardinality(FieldRowsOf(tile_rows[i], f)) = 1
              /\ \A n \in FieldRowsOf(tile_rows[i], f) :
                    FieldCountsRight(tile_rows[i], field_rows[n])

\* A tile of three samples with the same temperature whose mean is not that
\* temperature.
C27_MeanOutsideRange ==
    \E n \in DOMAIN field_rows :
        /\ field_rows[n].field_name = "temperature_2m"
        /\ field_rows[n].null_count = 0
        /\ field_rows[n].min_value = field_rows[n].max_value
        /\ field_rows[n].mean_value # field_rows[n].min_value

(***************************************************************************)
(* Claims about the empty point list (checked under SpecWrite).            *)
(***************************************************************************)
\* C30: write_forecast_points invoked with an empty point list sends no row
\* to any table and returns 0, even when grid samples are supplied; rows
\* reach the sink only in invocations with at least one point record.
C30_EmptyPointsWriteNothing ==
    /\ w_args.points = << >> =>
          /\ sink = << >>
          /\ w_pc \in {"start", "done"}
          /\ w_pc = "done" => w_return = Some(0)
    /\ sink # << >> => Len(w_args.points) >= 1

\* C30 witness: the invocation with no point and three grid samples has
\* returned 0 and the sink got no call.
C30_Witness ==
    /\ w_args.points = << >>
    /\ w_args.grid_samples # << >>
    /\ w_pc = "done"
    /\ w_return = Some(0)
    /\ sink = << >>

(***************************************************************************)
(* Claims about the latest run time (checked under SpecFn).                *)
(***************************************************************************)
\* The cycle hours of a model.
CyclesOf(model) ==
    CASE model \in {"gfs", "nam"} -> {0, 6, 12, 18}
      [] model = "ecmwf" -> {0, 12}
      [] OTHER -> 0..23

\* Time a is not later than time b.
NotLater(a, b) ==
    \/ a.day < b.day
    \/ a.day = b.day /\ a.hour < b.hour
    \/ a.day = b.day /\ a.hour = b.hour /\ a.minute <= b.minute

\* C29 (as claimed): for every current UTC time and every model,
\* get_latest_run_time returns without raising a timestamp that is not later
\* than the current time, has minute zero and whose hour is a cycle of the
\* model (any hour for hrrr; 0, 6, 12, 18 for gfs and nam; 0, 12 for ecmwf).
C29_LatestRunTimeIsAPastCycle ==
    ( /\ Called("get_latest_run_time")
      /\ call.args.model \in {"hrrr", "gfs", "nam", "ecmwf"} ) =>
        /\ ~call.result.raised
        /\ NotLater(call.result.value, call.args.now)
        /\ call.result.value.minute = 0
        /\ call.result.value.hour \in CyclesOf(call.args.model)

\* What does hold: a returned timestamp is a past cycle of the model.
C29_ReturnedIsAPastCycle ==
    ( /\ Called("get_latest_run_time")
      /\ ~call.result.raised ) =>
        /\ NotLater(call.result.value, call.args.now)
        /\ call.result.value.minute = 0
        /\ call.result.value.hour \in CyclesOf(call.args.model)

\* The call for hrrr at 00:44 raised.
C29_HrrrAfterMidnightRaises ==
    /\ Called("get_latest_run_time")
    /\ call.args.model = "hrrr"
    /\ call.args.now.hour = 0
    /\ call.args.now.minute = 44
    /\ call.result.raised

(***************************************************************************)
(* Claims about _run_ingestion (checked under SpecMain).                   *)
(***************************************************************************)
\* C28 (as claimed): with at least one configured city _run_ingestion hands
\* the point records and the grid samples the reader returned, together
\* with the city table, to write_forecast_points and completes with a
\* response whose rows_written is the writer's count; with no city it fails
\* with an HTTP 500 error before any index or range request is made.
C28_RunIngestionHandsOverAndResponds ==
    /\ (m_pc \in {"raised", "done"} /\ DOMAIN CITIES = {}) =>
          /\ m_pc = "raised"
          /\ Val(m_result).exception = "HTTPException"
          /\ Val(m_result).status_code = 500
          /\ m_points = None
    /\ (m_pc \in {"raised", "done"} /\ DOMAIN CITIES # {} /\ m_points # None) =>
          /\ m_pc = "done"
          /\ Val(m_result).written.points = Val(m_points)[1]
          /\ Val(m_result).written.grid_samples = Val(m_points)[2]
          /\ Val(m_result).written.cities = CITIES
          /\ Val(m_result).rows_written = Len(Val(m_points)[1])

\* What does hold: no city gives the HTTP 500 before the reader is called,
\* and a run whose reader returned never reaches the response.
C28_NoCityFailsFirst ==
    /\ (m_pc \in {"raised", "done"} /\ DOMAIN CITIES = {}) =>
          /\ m_pc = "raised"
          /\ Val(m_result).exception = "HTTPException"
          /\ Val(m_result).status_code = 500
          /\ m_points = None
    /\ m_pc # "done"

\* With two cities configured the reader returned a point record and a grid
\* sample, and _run_ingestion ended with the TypeError of the writer call.
C28_WriterCallRaises ==
    /\ DOMAIN CITIES # {}
    /\ m_points # None
    /\ Val(m_points)[1] # << >>
    /\ Val(m_points)[2] # << >>
    /\ m_pc = "raised"
    /\ Val(m_result).exception = "TypeError"

====
